---- MODULE Spec2Model ----
(***************************************************************************)
(* A model of the chatbot backend: the file-backed Conversation Store      *)
(* (ConversationManager) and the provider adapters' streamResponse.        *)
(*                                                                         *)
(* Text is a sequence of one-character strings, so that substring, split,  *)
(* trim and concatenation are computed, not assumed.                       *)
(***************************************************************************)
EXTENDS Integers, Sequences, FiniteSets, TLC

(***************************************************************************)
(* Bounds of the model.                                                    *)
(***************************************************************************)
\* calls started in the concurrent specification
MaxCalls == 2
\* calls started in the sequential specification with failing writes
MaxOps == 3
\* appends made in the sequential append specification
MaxAppends == 52
\* period of the input pattern of the sequential append specification
PatternLen == 2
\* vendor events in the vendor's output for one streamed request
MaxEvents == 3

(***************************************************************************)
(* Program constants.                                                      *)
(***************************************************************************)
\* conversation.length > 50, slice(-50)
MaxHistory == 50
\* content.substring(0, 100), content.length > 100
PreviewLen == 100
\* split(' ').slice(0, 5)
TitleWords == 5

ConvIds == {"c1", "c2"}
Tasks == {"t1", "t2"}
Roles == {"user", "assistant"}

(***************************************************************************)
(* Text helpers.                                                           *)
(***************************************************************************)
Min(a, b) == IF a < b THEN a ELSE b

\* JavaScript's \w: letters, digits and the underscore
WordChars ==
    {"a","b","c","d","e","f","g","h","i","j","k","l","m","n","o","p","q","r",
     "s","t","u","v","w","x","y","z","A","B","C","D","E","F","G","H","I","J",
     "K","L","M","N","O","P","Q","R","S","T","U","V","W","X","Y","Z","0","1",
     "2","3","4","5","6","7","8","9","_"}

\* JavaScript's \s, as far as the model's texts use it
SpaceChars == {" ", "\t", "\n"}

\* String.prototype.substring(0, n)
Substring0(s, n) == SubSeq(s, 1, Min(n, Len(s)))

\* String.prototype.trim()
Trim(s) ==
    LET kept == {i \in 1..Len(s) : s[i] \notin SpaceChars}
    IN IF kept = {} THEN <<>>
       ELSE SubSeq(s, CHOOSE i \in kept : \A j \in kept : i <= j,
                      CHOOSE i \in kept : \A j \in kept : j <= i)

\* String.prototype.split(sep) for a one-character separator: the pieces
\* between the separators, empty pieces kept
Split(s, sep) ==
    LET at == {i \in 1..Len(s) : s[i] = sep}
        \* the position of the k-th separator; 0 before the first piece and
        \* Len(s) + 1 after the last
        pos(k) == IF k = 0 THEN 0
                  ELSE IF k > Cardinality(at) THEN Len(s) + 1
                  ELSE CHOOSE i \in at : Cardinality({j \in at : j < i}) = k - 1
    IN [k \in 1..(Cardinality(at) + 1) |-> SubSeq(s, pos(k - 1) + 1, pos(k) - 1)]

\* Array.prototype.join(sep)
RECURSIVE Join(_, _)
Join(parts, sep) ==
    IF parts = <<>> THEN <<>>
    ELSE IF Len(parts) = 1 THEN parts[1]
    ELSE parts[1] \o sep \o Join(Tail(parts), sep)

\* Array.prototype.slice(0, n)
Slice0(a, n) == SubSeq(a, 1, Min(n, Len(a)))

\* Array.prototype.slice(-n)
SliceLast(a, n) == IF Len(a) <= n THEN a ELSE SubSeq(a, Len(a) - n + 1, Len(a))

(***************************************************************************)
(* ConversationManager: pure parts.                                        *)
(***************************************************************************)
NewConversation ==
    <<"N","e","w"," ","C","o","n","v","e","r","s","a","t","i","o","n">>

generateTitle(content) ==
    LET cleanContent ==
            Trim(SelectSeq(content, LAMBDA ch : ch \in WordChars \cup SpaceChars))
        words == Slice0(Split(cleanContent, " "), TitleWords)
        joined == Join(words, <<" ">>)
    IN IF joined = <<>> THEN NewConversation ELSE joined

Ellipsis == <<".", ".", ".">>

\* a slip in the comparison: the ellipsis is added from 100 characters on
PreviewOf_EllipsisAt100(content) ==
    Substring0(content, PreviewLen)
        \o (IF Len(content) >= PreviewLen THEN Ellipsis ELSE <<>>)

\* lastMessage.content.substring(0, 100) + (length > 100 ? '...' : '')
PreviewOf(content) ==
    Substring0(content, PreviewLen)
        \o (IF Len(content) > PreviewLen THEN Ellipsis ELSE <<>>)

\* the lastMessage field of a metadata record
LastMessageOf(lastMessage) ==
    [role |-> lastMessage.role,
     content |-> PreviewOf(lastMessage.content),
     timestamp |-> lastMessage.timestamp]

EmptyMetadata == [k \in {} |-> 0]

\* an update that made the title again from every message
UpdatedMetadata_Retitled(metadata, conversationId, lastMessage, now) ==
    LET old == IF conversationId \in DOMAIN metadata
               THEN metadata[conversationId]
               ELSE [createdAt |-> now, messageCount |-> 0]
        rec == [createdAt |-> old.createdAt,
                title |-> generateTitle(lastMessage.content),
                lastUpdated |-> now,
                messageCount |-> old.messageCount + 1,
                lastMessage |-> LastMessageOf(lastMessage)]
    IN [k \in DOMAIN metadata \cup {conversationId} |->
            IF k = conversationId THEN rec ELSE metadata[k]]

\* the body of updateConversationMetadata between the read and the write
UpdatedMetadata(metadata, conversationId, lastMessage, now) ==
    LET old == IF conversationId \in DOMAIN metadata
               THEN metadata[conversationId]
               ELSE [createdAt |-> now,
                     messageCount |-> 0,
                     title |-> generateTitle(lastMessage.content)]
        rec == [createdAt |-> old.createdAt,
                title |-> old.title,
                lastUpdated |-> now,
                messageCount |-> old.messageCount + 1,
                lastMessage |-> LastMessageOf(lastMessage)]
    IN [k \in DOMAIN metadata \cup {conversationId} |->
            IF k = conversationId THEN rec ELSE metadata[k]]

\* an index from which nothing is removed
WithoutKey_KeepsAll(metadata, conversationId) == metadata

\* delete metadata[conversationId]
WithoutKey(metadata, conversationId) ==
    [k \in DOMAIN metadata \ {conversationId} |-> metadata[k]]

\* conversation.push({...message, id, createdAt})
StoredEntry(message, now) ==
    [role |-> message.role, content |-> message.content,
     timestamp |-> message.timestamp, id |-> now, createdAt |-> now]

\* a slip in the slice: slice(0, 50) keeps the oldest 50, not the newest
Pushed_KeepsOldest(conversation, message, now) ==
    LET appended == Append(conversation, StoredEntry(message, now))
    IN IF Len(appended) > MaxHistory
       THEN Slice0(appended, MaxHistory)
       ELSE appended

\* push, then keep only the last 50
Pushed(conversation, message, now) ==
    LET appended == Append(conversation, StoredEntry(message, now))
    IN IF Len(appended) > MaxHistory
       THEN SliceLast(appended, MaxHistory)
       ELSE appended

(***************************************************************************)
(* The texts the model's callers send.                                     *)
(***************************************************************************)
ShortText == <<"H", "i", "!">>
Text100 == [i \in 1..PreviewLen |-> "a"]
Text101 == [i \in 1..(PreviewLen + 1) |-> "b"]
Contents == {ShortText, Text100, Text101}
Inputs == Roles \X Contents
\* the two turns of a chat request, for the specifications that interleave calls
OpsInputs == {<<"user", ShortText>>, <<"assistant", Text101>>}

(***************************************************************************)
(* State.                                                                  *)
(***************************************************************************)
VARIABLES
    files,        \* data/conversations/<id>.json: [exists, data]
    metadataFile, \* data/conversations/metadata.json: [exists, data]
    task,         \* each in-flight call: its position and its locals
    clock,        \* Date.now(), read at most once in a millisecond
    calls,        \* ghost: calls started
    saved,        \* ghost: per id, the messages whose saveMessage returned
    overlapped,   \* ghost: some call started while another was in flight
    script,       \* the input of the sequential append specification
    created,      \* ghost: the ids whose log file was ever written
    sProvider,    \* streamResponse: the adapter called
    sScript,      \* the vendor's output for the request, as vendor events
    sPc,          \* where the streamResponse call is
    sPos,         \* how much of the vendor's output has been consumed
    sFull,        \* let fullContent
    sUsage,       \* let usage
    sEvents,      \* ghost: the callbacks invoked so far, in order
    req,          \* a chat request: the handler's position and locals
    res,          \* its response: status, body, frames written, ended
    cmp,          \* a compare request: providers, branches, results
    gen,          \* a generateResponse call: vendor usage in, usage out
    call,         \* the parameters of a request on their way to the vendor
    qry,          \* a read of the store: its arguments and what it returned
    sink,         \* the caller's connection of a streamed request
    sPrev         \* ghost: where the chunk last handled by the raw feed began

storeVars ==
    <<files, metadataFile, task, clock, calls, saved, overlapped, script,
      created>>

streamVars == <<sProvider, sScript, sPc, sPos, sFull, sUsage, sEvents>>

auxVars == <<call, qry, sink, sPrev>>

gateVars == <<req, res, cmp, gen, auxVars>>

vars == <<storeVars, streamVars, gateVars>>

NoMessage == [role |-> "user", content |-> <<>>, timestamp |-> 0]

IdleTask ==
    [pc |-> "idle", op |-> "none", id |-> "c1", message |-> NoMessage,
     conversation |-> <<>>, metadata |-> EmptyMetadata, result |-> "none"]

AllIdle == \A t \in Tasks : task[t].pc = "idle"

DefaultScript ==
    [id |-> "c1", pattern |-> [i \in 1..PatternLen |-> <<"user", ShortText>>]]

InitStore ==
    /\ files = [id \in ConvIds |-> [exists |-> FALSE, data |-> <<>>]]
    /\ metadataFile = [exists |-> FALSE, data |-> EmptyMetadata]
    /\ task = [t \in Tasks |-> IdleTask]
    /\ clock = 1
    /\ calls = 0
    /\ saved = [id \in ConvIds |-> <<>>]
    /\ overlapped = FALSE
    /\ created = {}

\* usage = null
NullUsage ==
    [isNull |-> TRUE,
     value |-> [prompt_tokens |-> 0, completion_tokens |-> 0, total_tokens |-> 0]]

InitNoStream ==
    /\ sProvider = "mistral"
    /\ sScript = <<>>
    /\ sPc = "start"
    /\ sPos = 0
    /\ sFull = <<>>
    /\ sUsage = NullUsage
    /\ sEvents = <<>>

(***************************************************************************)
(* The usage a generateResponse returns, computed from the usage object of *)
(* the vendor's response as JavaScript computes it. A value is a number,   *)
(* undefined or NaN; the vendor's object has any of its keys, here named   *)
(* prompt, completion and total whatever the vendor calls them.            *)
(***************************************************************************)
MaxTokens == 2

UsageKeys == {"prompt", "completion", "total"}

Num(n) == [t |-> "number", n |-> n]
Undefined == [t |-> "undefined", n |-> 0]
NaN == [t |-> "NaN", n |-> 0]

\* obj.key
Get(obj, key) == IF key \in DOMAIN obj THEN Num(obj[key]) ELSE Undefined

\* v || 0: undefined, NaN and 0 are falsy
OrZero(v) == IF v.t = "number" /\ v.n # 0 THEN v ELSE Num(0)

\* a + b: a sum with undefined or NaN is NaN
Plus(a, b) ==
    IF a.t = "number" /\ b.t = "number" THEN Num(a.n + b.n) ELSE NaN

\* the usage objects a vendor response can carry, and a response without one
VendorUsages ==
    {[present |-> FALSE, fields |-> [k \in {} |-> 0]]}
        \cup {[present |-> TRUE, fields |-> f] :
                f \in UNION {[K -> 0..MaxTokens] : K \in SUBSET UsageKeys}}

\* AnthropicService.generateResponse: input_tokens, output_tokens, their sum
AnthropicUsage(u) ==
    [prompt_tokens |-> Get(u, "prompt"),
     completion_tokens |-> Get(u, "completion"),
     total_tokens |-> Plus(Get(u, "prompt"), Get(u, "completion"))]

\* OpenAIService.generateResponse: the vendor's three fields as they are
OpenAIUsage(u) ==
    [prompt_tokens |-> Get(u, "prompt"),
     completion_tokens |-> Get(u, "completion"),
     total_tokens |-> Get(u, "total")]

\* GeminiService.generateResponse: each field of usageMetadata or 0
GeminiUsage(u) ==
    [prompt_tokens |-> OrZero(Get(u, "prompt")),
     completion_tokens |-> OrZero(Get(u, "completion")),
     total_tokens |-> OrZero(Get(u, "total"))]

\* MistralService.generateResponse: the vendor's three fields as they are
MistralUsage(u) ==
    [prompt_tokens |-> Get(u, "prompt"),
     completion_tokens |-> Get(u, "completion"),
     total_tokens |-> Get(u, "total")]

\* CohereService.generateResponse: billedUnits' inputTokens and outputTokens,
\* each or 0, and their sum
CohereUsage(u) ==
    [prompt_tokens |-> OrZero(Get(u, "prompt")),
     completion_tokens |-> OrZero(Get(u, "completion")),
     total_tokens |-> Plus(OrZero(Get(u, "prompt")),
                           OrZero(Get(u, "completion")))]

\* reading a field of a missing usage object throws a TypeError, except
\* behind ?. (gemini, cohere), where it reads as undefined
ThrowsOnMissingUsage(provider) == provider \in {"anthropic", "openai", "mistral"}

GenerateUsage(provider, vendor) ==
    IF provider = "anthropic" THEN AnthropicUsage(vendor.fields)
    ELSE IF provider = "openai" THEN OpenAIUsage(vendor.fields)
    ELSE IF provider = "gemini" THEN GeminiUsage(vendor.fields)
    ELSE IF provider = "mistral" THEN MistralUsage(vendor.fields)
    ELSE CohereUsage(vendor.fields)

NoUsage ==
    [prompt_tokens |-> Undefined, completion_tokens |-> Undefined,
     total_tokens |-> Undefined]

IdleGenerate ==
    [pc |-> "idle", provider |-> "anthropic",
     vendor |-> [present |-> FALSE, fields |-> [k \in {} |-> 0]],
     usage |-> NoUsage]

InitNoGenerate == gen = IdleGenerate

\* no chat request is being handled
IdleReq ==
    [n |-> 0, route |-> "none", pc |-> "idle", provider |-> "anthropic",
     convId |-> "c1", message |-> <<>>, includeHistory |-> TRUE,
     history |-> <<>>, generated |-> "none", content |-> <<>>,
     persisted |-> "none",
     before |-> [files |-> [id \in ConvIds |-> [exists |-> FALSE, data |-> <<>>]],
                 metadataFile |-> [exists |-> FALSE, data |-> EmptyMetadata]]]

\* nothing has been written to the response
NoResponse ==
    [status |-> 0,
     body |-> [kind |-> "none", response |-> <<>>, conversationId |-> "c1",
               error |-> ""],
     frames |-> <<>>, ended |-> FALSE]

IdleCompare ==
    [pc |-> "idle", providers |-> <<>>, responses |-> <<>>, order |-> <<>>,
     results |-> <<>>]

InitNoChat ==
    /\ req = IdleReq
    /\ res = NoResponse

InitNoCompare == cmp = IdleCompare

\* no request is on its way to a vendor
IdleCall ==
    [pc |-> "idle", route |-> "chat",
     body |-> [provider |-> "", model |-> "", maxTokens |-> Undefined],
     provider |-> "", model |-> "", maxTokens |-> Undefined,
     sent |-> [model |-> "", maxTokens |-> Undefined]]

\* no read of the store has been made
IdleQuery == [pc |-> "idle", op |-> "none", args |-> <<>>, result |-> <<>>]

\* the caller's connection is open
OpenSink == [closed |-> FALSE, n |-> 0, frames |-> 0]

InitNoAux ==
    /\ call = IdleCall
    /\ qry = IdleQuery
    /\ sink = OpenSink
    /\ sPrev = 0

InitNoGate ==
    /\ InitNoChat
    /\ InitNoCompare
    /\ InitNoGenerate
    /\ InitNoAux

Init ==
    /\ InitStore
    /\ script = DefaultScript
    /\ InitNoStream
    /\ InitNoGate

(***************************************************************************)
(* saveMessage, one action per await.                                      *)
(***************************************************************************)
\* the caller builds the message (timestamp: new Date()) and calls saveMessage;
\* the caller's own state is the caller's to change
StartSave(t, id, role, content) ==
    /\ task[t].pc = "idle"
    /\ task' = [task EXCEPT ![t] =
            [IdleTask EXCEPT !.pc = "save_read", !.op = "save", !.id = id,
                !.message = [role |-> role, content |-> content,
                             timestamp |-> clock]]]
    /\ clock' = clock + 1
    /\ calls' = calls + 1
    /\ overlapped' = (overlapped \/ ~AllIdle)
    /\ UNCHANGED <<files, metadataFile, saved, script, created>>

\* await fs.readFile(filePath), JSON.parse, push, slice(-50)
SaveRead(t) ==
    /\ task[t].pc = "save_read"
    /\ LET f == files[task[t].id]
           conversation == IF f.exists THEN f.data ELSE <<>>
       IN task' = [task EXCEPT ![t].pc = "save_write",
                ![t].conversation = Pushed(conversation, task[t].message, clock)]
    /\ clock' = clock + 1
    /\ UNCHANGED <<files, metadataFile, calls, saved, overlapped, script, created,
                   streamVars, gateVars>>

\* await fs.writeFile(filePath, ...), then updateConversationMetadata is entered
SaveWrite(t) ==
    /\ task[t].pc = "save_write"
    /\ files' = [files EXCEPT ![task[t].id] =
            [exists |-> TRUE, data |-> task[t].conversation]]
    /\ task' = [task EXCEPT ![t].pc = "meta_read"]
    /\ created' = created \cup {task[t].id}
    /\ UNCHANGED <<metadataFile, clock, calls, saved, overlapped, script,
                   streamVars, gateVars>>

\* updateConversationMetadata: await fs.readFile(metadataPath), then the update
MetaRead(t) ==
    /\ task[t].pc = "meta_read"
    /\ LET metadata == IF metadataFile.exists THEN metadataFile.data
                       ELSE EmptyMetadata
       IN task' = [task EXCEPT ![t].pc = "meta_write",
                ![t].metadata =
                    UpdatedMetadata(metadata, task[t].id, task[t].message, clock)]
    /\ clock' = clock + 1
    /\ UNCHANGED <<files, metadataFile, calls, saved, overlapped, script, created,
                   streamVars, gateVars>>

\* what the caller sees when the call returns normally
Returned(t) ==
    /\ task' = [task EXCEPT ![t] = [IdleTask EXCEPT !.result = "ok"]]
    /\ saved' = IF task[t].op = "save"
                THEN [saved EXCEPT ![task[t].id] = Append(@, task[t].message)]
                ELSE saved

\* updateConversationMetadata: await fs.writeFile(metadataPath, ...)
MetaWrite(t) ==
    /\ task[t].pc = "meta_write"
    /\ metadataFile' = [exists |-> TRUE, data |-> task[t].metadata]
    /\ Returned(t)
    /\ UNCHANGED <<files, clock, calls, overlapped, script, created,
                   streamVars, gateVars>>

(***************************************************************************)
(* Concurrent requests: any task starts a saveMessage at any time.         *)
(***************************************************************************)
ConcStartSave ==
    \E t \in Tasks, id \in ConvIds, in \in OpsInputs :
        /\ calls < MaxCalls
        /\ StartSave(t, id, in[1], in[2])
        /\ UNCHANGED <<streamVars, gateVars>>

Next ==
    \/ ConcStartSave
    \/ \E t \in Tasks : SaveRead(t)
    \/ \E t \in Tasks : SaveWrite(t)
    \/ \E t \in Tasks : MetaRead(t)
    \/ \E t \in Tasks : MetaWrite(t)

Spec == Init /\ [][Next]_vars

(***************************************************************************)
(* Sequential appends to one conversation id: a call starts only when no   *)
(* other is in flight. The n-th message is the script's pattern at n.      *)
(***************************************************************************)
\* the task that makes the calls of a sequential specification
SeqTask == CHOOSE t \in Tasks : TRUE

InitSeq ==
    /\ InitNoStream
    /\ InitNoGate
    /\ InitStore
    /\ script \in [id : ConvIds, pattern : [1..PatternLen -> Inputs]]

SeqStartSave ==
    /\ AllIdle
    /\ calls < MaxAppends
    /\ LET in == script.pattern[(calls % PatternLen) + 1]
       IN StartSave(SeqTask, script.id, in[1], in[2])
    /\ UNCHANGED <<streamVars, gateVars>>

NextSeq ==
    \/ SeqStartSave
    \/ \E t \in Tasks : SaveRead(t)
    \/ \E t \in Tasks : SaveWrite(t)
    \/ \E t \in Tasks : MetaRead(t)
    \/ \E t \in Tasks : MetaWrite(t)

SpecSeq == InitSeq /\ [][NextSeq]_vars

(***************************************************************************)
(* deleteConversation and importConversation, one action per await, and    *)
(* the writes that fail.                                                   *)
(***************************************************************************)
\* what the caller sees when the call throws
Thrown(t) ==
    /\ task' = [task EXCEPT ![t] = [IdleTask EXCEPT !.result = "error"]]
    /\ UNCHANGED saved

\* saveMessage: fs.writeFile(filePath) rejects; the catch logs and rethrows
SaveWriteFail(t) ==
    /\ task[t].pc = "save_write"
    /\ Thrown(t)
    /\ UNCHANGED <<files, metadataFile, clock, calls, overlapped, script, created,
                   streamVars, gateVars>>

\* updateConversationMetadata: fs.writeFile(metadataPath) rejects; the catch
\* only logs, so the caller returns normally
MetaWriteFail(t) ==
    /\ task[t].pc = "meta_write"
    /\ Returned(t)
    /\ UNCHANGED <<files, metadataFile, clock, calls, overlapped, script, created,
                   streamVars, gateVars>>

StartDelete(t, id) ==
    /\ task[t].pc = "idle"
    /\ task' = [task EXCEPT ![t] =
            [IdleTask EXCEPT !.pc = "del_unlink", !.op = "delete", !.id = id]]
    /\ calls' = calls + 1
    /\ overlapped' = (overlapped \/ ~AllIdle)
    /\ UNCHANGED <<files, metadataFile, clock, saved, script, created,
                   streamVars, gateVars>>

\* await fs.unlink(filePath): ENOENT on a missing file is rethrown
DelUnlink(t) ==
    /\ task[t].pc = "del_unlink"
    /\ IF files[task[t].id].exists
       THEN /\ files' = [files EXCEPT ![task[t].id] =
                    [exists |-> FALSE, data |-> <<>>]]
            /\ task' = [task EXCEPT ![t].pc = "del_meta_read"]
            /\ UNCHANGED saved
       ELSE /\ Thrown(t)
            /\ UNCHANGED files
    /\ UNCHANGED <<metadataFile, clock, calls, overlapped, script, created,
                   streamVars, gateVars>>

\* await fs.readFile(metadataPath), delete metadata[conversationId]; a missing
\* metadata file is caught and ignored
DelMetaRead(t) ==
    /\ task[t].pc = "del_meta_read"
    /\ IF metadataFile.exists
       THEN /\ task' = [task EXCEPT ![t].pc = "del_meta_write",
                    ![t].metadata = WithoutKey(metadataFile.data, task[t].id)]
            /\ UNCHANGED saved
       ELSE Returned(t)
    /\ UNCHANGED <<files, metadataFile, clock, calls, overlapped, script, created,
                   streamVars, gateVars>>

\* await fs.writeFile(metadataPath, ...)
DelMetaWrite(t) ==
    /\ task[t].pc = "del_meta_write"
    /\ metadataFile' = [exists |-> TRUE, data |-> task[t].metadata]
    /\ Returned(t)
    /\ UNCHANGED <<files, clock, calls, overlapped, script, created,
                   streamVars, gateVars>>

\* the write rejects; the inner catch ignores it
DelMetaWriteFail(t) ==
    /\ task[t].pc = "del_meta_write"
    /\ Returned(t)
    /\ UNCHANGED <<files, metadataFile, clock, calls, overlapped, script, created,
                   streamVars, gateVars>>

\* importConversation(conversationData, conversationId) with a caller-chosen id
StartImport(t, id, conversationData) ==
    /\ task[t].pc = "idle"
    /\ task' = [task EXCEPT ![t] =
            [IdleTask EXCEPT !.pc = "imp_write", !.op = "import", !.id = id,
                !.conversation = conversationData]]
    /\ calls' = calls + 1
    /\ overlapped' = (overlapped \/ ~AllIdle)
    /\ UNCHANGED <<files, metadataFile, clock, saved, script, created,
                   streamVars, gateVars>>

\* an import that stamped its entries the way saveMessage does
ImpWrite_Stamped(t) ==
    /\ task[t].pc = "imp_write"
    /\ files' = [files EXCEPT ![task[t].id] =
            [exists |-> TRUE,
             data |-> [i \in 1..Len(task[t].conversation) |->
                         StoredEntry(task[t].conversation[i], clock)]]]
    /\ LET conversationData == task[t].conversation
       IN IF Len(conversationData) > 0
          THEN /\ task' = [task EXCEPT ![t].pc = "meta_read",
                       ![t].message =
                           conversationData[Len(conversationData)]]
               /\ UNCHANGED saved
          ELSE Returned(t)
    /\ created' = created \cup {task[t].id}
    /\ UNCHANGED <<metadataFile, clock, calls, overlapped, script,
                   streamVars, gateVars>>

\* await fs.writeFile(filePath, ...); metadata is updated from the last
\* element only when the data is not empty
ImpWrite(t) ==
    /\ task[t].pc = "imp_write"
    /\ files' = [files EXCEPT ![task[t].id] =
            [exists |-> TRUE, data |-> task[t].conversation]]
    /\ LET conversationData == task[t].conversation
       IN IF Len(conversationData) > 0
          THEN /\ task' = [task EXCEPT ![t].pc = "meta_read",
                       ![t].message =
                           conversationData[Len(conversationData)]]
               /\ UNCHANGED saved
          ELSE Returned(t)
    /\ created' = created \cup {task[t].id}
    /\ UNCHANGED <<metadataFile, clock, calls, overlapped, script,
                   streamVars, gateVars>>

\* the write rejects; the catch logs and rethrows
ImpWriteFail(t) ==
    /\ task[t].pc = "imp_write"
    /\ Thrown(t)
    /\ UNCHANGED <<files, metadataFile, clock, calls, overlapped, script, created,
                   streamVars, gateVars>>

(***************************************************************************)
(* Sequential calls of saveMessage, importConversation and                 *)
(* deleteConversation, any write of which may fail.                        *)
(***************************************************************************)
ImportEntry1 ==
    [role |-> "user", content |-> ShortText, timestamp |-> 0,
     id |-> 0, createdAt |-> 0]

ImportEntry2 ==
    [role |-> "assistant", content |-> Text101, timestamp |-> 0,
     id |-> 0, createdAt |-> 0]

ImportData ==
    {<<>>, <<ImportEntry1>>, <<ImportEntry1, ImportEntry2>>,
     [i \in 1..(MaxHistory + 1) |-> ImportEntry1]}

OpsStartSave ==
    \E id \in ConvIds, in \in OpsInputs :
        /\ AllIdle
        /\ calls < MaxOps
        /\ StartSave(SeqTask, id, in[1], in[2])
        /\ UNCHANGED <<streamVars, gateVars>>

OpsStartImport ==
    \E id \in ConvIds, conversationData \in ImportData :
        /\ AllIdle
        /\ calls < MaxOps
        /\ StartImport(SeqTask, id, conversationData)

OpsStartDelete ==
    \E id \in ConvIds :
        /\ AllIdle
        /\ calls < MaxOps
        /\ StartDelete(SeqTask, id)

NextOps ==
    \/ OpsStartSave
    \/ OpsStartImport
    \/ OpsStartDelete
    \/ \E t \in Tasks : SaveRead(t)
    \/ \E t \in Tasks : SaveWrite(t)
    \/ \E t \in Tasks : SaveWriteFail(t)
    \/ \E t \in Tasks : MetaRead(t)
    \/ \E t \in Tasks : MetaWrite(t)
    \/ \E t \in Tasks : MetaWriteFail(t)
    \/ \E t \in Tasks : DelUnlink(t)
    \/ \E t \in Tasks : DelMetaRead(t)
    \/ \E t \in Tasks : DelMetaWrite(t)
    \/ \E t \in Tasks : DelMetaWriteFail(t)
    \/ \E t \in Tasks : ImpWrite(t)
    \/ \E t \in Tasks : ImpWriteFail(t)

SpecOps == Init /\ [][NextOps]_vars

(***************************************************************************)
(* The same sequential calls on a file system whose writes succeed.        *)
(***************************************************************************)
NextCrud ==
    \/ OpsStartSave
    \/ OpsStartImport
    \/ OpsStartDelete
    \/ \E t \in Tasks : SaveRead(t)
    \/ \E t \in Tasks : SaveWrite(t)
    \/ \E t \in Tasks : MetaRead(t)
    \/ \E t \in Tasks : MetaWrite(t)
    \/ \E t \in Tasks : DelUnlink(t)
    \/ \E t \in Tasks : DelMetaRead(t)
    \/ \E t \in Tasks : DelMetaWrite(t)
    \/ \E t \in Tasks : ImpWrite(t)

SpecCrud == Init /\ [][NextCrud]_vars

(***************************************************************************)
(* streamResponse of the provider adapters.                                *)
(*                                                                         *)
(* The vendor's output for a request is a sequence of vendor events. The   *)
(* SDK adapters (anthropic, openai, gemini, cohere) iterate over them; the *)
(* mistral adapter receives them as a byte feed, here a sequence of wire   *)
(* tokens that the network cuts into chunks anywhere.                      *)
(***************************************************************************)
Providers == {"mistral", "anthropic", "openai", "gemini", "cohere"}

VendorUsage ==
    [isNull |-> FALSE,
     value |-> [prompt_tokens |-> 3, completion_tokens |-> 5, total_tokens |-> 8]]

DeltaHe == [type |-> "delta", text |-> <<"H", "e">>]
DeltaLlo == [type |-> "delta", text |-> <<"l", "l", "o">>]
DeltaEmpty == [type |-> "delta", text |-> <<>>]
UsageEvent == [type |-> "usage", text |-> <<>>]
OtherEvent == [type |-> "other", text |-> <<>>]
DoneEvent == [type |-> "done", text |-> <<>>]

\* what each vendor can send: only the raw feed carries the [DONE] sentinel,
\* and a gemini stream carries text chunks only
VendorEvents(provider) ==
    IF provider = "mistral" THEN {DeltaHe, DeltaLlo, UsageEvent, DoneEvent}
    ELSE IF provider = "gemini" THEN {DeltaHe, DeltaLlo, DeltaEmpty}
    ELSE {DeltaHe, DeltaLlo, DeltaEmpty, UsageEvent, OtherEvent}

SeqsUpTo(S, n) == UNION {[1..k -> S] : k \in 0..n}

\* the wire form of the raw feed: 'data: ' payload '\n\n', the payload either
\* '[DONE]' or a JSON object; the prefix and the sentinel are two tokens each
\* so that a chunk can end inside them
DataPrefix == <<"da", "ta: ">>
DoneToken == <<"[DO", "NE]">>
UsageToken == "#usage"

EncodeEvent(ev) ==
    DataPrefix
        \o (IF ev.type = "done" THEN DoneToken
            ELSE IF ev.type = "broken" THEN <<"{">> \o ev.text
            ELSE <<"{">> \o ev.text
                    \o (IF ev.type = "usage" THEN <<UsageToken>> ELSE <<>>)
                    \o <<"}">>)
        \o <<"\n", "\n">>

RECURSIVE Wire(_)
Wire(events) ==
    IF events = <<>> THEN <<>>
    ELSE EncodeEvent(Head(events)) \o Wire(Tail(events))

\* JSON.parse(data) succeeds: a whole object, the opening to the closing brace
JsonParses(data) ==
    /\ Len(data) >= 2
    /\ data[1] = "{"
    /\ data[Len(data)] = "}"
    /\ \A i \in 2..(Len(data) - 1) :
          \/ data[i] \in WordChars
          \/ i = Len(data) - 1 /\ data[i] = UsageToken

\* parsed.choices[0]?.delta?.content || '' and parsed.usage
JsonParse(data) ==
    LET hasUsage == Len(data) >= 3 /\ data[Len(data) - 1] = UsageToken
    IN [content |-> SubSeq(data, 2, Len(data) - (IF hasUsage THEN 2 ELSE 1)),
        hasUsage |-> hasUsage]

ChunkEvent(text) == [kind |-> "chunk", text |-> text, usage |-> NullUsage]
CompleteEvent(content, usage) ==
    [kind |-> "complete", text |-> content, usage |-> usage]
ErrorEvent == [kind |-> "error", text |-> <<>>, usage |-> NullUsage]

\* line.startsWith('data: ')
StartsWithData(line) ==
    Len(line) >= Len(DataPrefix) /\ SubSeq(line, 1, Len(DataPrefix)) = DataPrefix

\* a handler that reports a payload it cannot decode instead of ignoring it
MistralLine_ReportsBadPayload(st, line) ==
    IF st.returned \/ ~StartsWithData(line) THEN st
    ELSE LET data == SubSeq(line, Len(DataPrefix) + 1, Len(line))
         IN IF data = DoneToken
            THEN [st EXCEPT
                    !.emitted = Append(@, CompleteEvent(st.fullContent, st.usage)),
                    !.returned = TRUE]
            ELSE IF ~JsonParses(data)
            THEN [st EXCEPT !.emitted = Append(@, ErrorEvent)]
            ELSE LET parsed == JsonParse(data)
                 IN [st EXCEPT
                        !.fullContent =
                            IF parsed.content # <<>> THEN @ \o parsed.content ELSE @,
                        !.emitted =
                            IF parsed.content # <<>>
                            THEN Append(@, ChunkEvent(parsed.content)) ELSE @,
                        !.usage = IF parsed.hasUsage THEN VendorUsage ELSE @]

\* the body of the for loop of the 'data' handler, for one line; st.returned
\* is the handler having returned after onComplete
MistralLine(st, line) ==
    IF st.returned \/ ~StartsWithData(line) THEN st
    ELSE LET data == SubSeq(line, Len(DataPrefix) + 1, Len(line))
         IN IF data = DoneToken
            THEN [st EXCEPT
                    !.emitted = Append(@, CompleteEvent(st.fullContent, st.usage)),
                    !.returned = TRUE]
            ELSE IF ~JsonParses(data) THEN st
            ELSE LET parsed == JsonParse(data)
                 IN [st EXCEPT
                        !.fullContent =
                            IF parsed.content # <<>> THEN @ \o parsed.content ELSE @,
                        !.emitted =
                            IF parsed.content # <<>>
                            THEN Append(@, ChunkEvent(parsed.content)) ELSE @,
                        !.usage = IF parsed.hasUsage THEN VendorUsage ELSE @]

RECURSIVE MistralLines(_, _)
MistralLines(st, lines) ==
    IF lines = <<>> THEN st
    ELSE MistralLines(MistralLine(st, Head(lines)), Tail(lines))

\* response.data.on('data', chunk => ...): the chunk alone is split into
\* lines; nothing is kept from one chunk to the next
MistralOnData(fullContent, usage, chunk) ==
    LET lines == SelectSeq(Split(chunk, "\n"), LAMBDA line : Trim(line) # <<>>)
    IN MistralLines([fullContent |-> fullContent, usage |-> usage,
                     emitted |-> <<>>, returned |-> FALSE], lines)

\* what the body of a for await loop leaves: the locals and the callbacks made
LoopState(fullContent, usage) ==
    [fullContent |-> fullContent, usage |-> usage, emitted |-> <<>>]

\* fullContent += content; onChunk(content)
WithChunk(st, text) ==
    [st EXCEPT !.fullContent = @ \o text, !.emitted = <<ChunkEvent(text)>>]

\* AnthropicService: content_block_delta is forwarded whatever its text,
\* message_delta sets usage, other events are skipped
AnthropicOnEvent(fullContent, usage, ev) ==
    LET st == LoopState(fullContent, usage)
    IN IF ev.type = "delta" THEN WithChunk(st, ev.text)
       ELSE IF ev.type = "usage" THEN [st EXCEPT !.usage = VendorUsage]
       ELSE st

\* OpenAIService: content = delta.content || '' is forwarded when not empty;
\* the chunk with finish_reason 'stop' sets usage
OpenAIOnEvent(fullContent, usage, ev) ==
    LET st == LoopState(fullContent, usage)
        sent == IF ev.text # <<>> THEN WithChunk(st, ev.text) ELSE st
    IN IF ev.type = "usage" THEN [sent EXCEPT !.usage = VendorUsage] ELSE sent

\* GeminiService: every chunk's text() is forwarded
GeminiOnEvent(fullContent, usage, ev) ==
    WithChunk(LoopState(fullContent, usage), ev.text)

\* CohereService: text-generation is forwarded whatever its text, stream-end
\* sets usage, other events are skipped
CohereOnEvent(fullContent, usage, ev) ==
    LET st == LoopState(fullContent, usage)
    IN IF ev.type = "delta" THEN WithChunk(st, ev.text)
       ELSE IF ev.type = "usage" THEN [st EXCEPT !.usage = VendorUsage]
       ELSE st

SdkOnEvent(provider, fullContent, usage, ev) ==
    IF provider = "anthropic" THEN AnthropicOnEvent(fullContent, usage, ev)
    ELSE IF provider = "openai" THEN OpenAIOnEvent(fullContent, usage, ev)
    ELSE IF provider = "gemini" THEN GeminiOnEvent(fullContent, usage, ev)
    ELSE CohereOnEvent(fullContent, usage, ev)

\* usageMetadata?.x || 0 when the final result reports no usage
ZeroUsage ==
    [isNull |-> FALSE,
     value |-> [prompt_tokens |-> 0, completion_tokens |-> 0, total_tokens |-> 0]]

\* the usage passed to onComplete: gemini builds it from the awaited final
\* result, which reports usage or not; the others pass the loop's usage,
\* null when no event set it
CompleteUsages(provider, usage) ==
    IF provider = "gemini" THEN {VendorUsage, ZeroUsage} ELSE {usage}

InitStream ==
    /\ InitStore
    /\ InitNoGate
    /\ script = DefaultScript
    /\ sProvider \in Providers
    /\ sScript \in SeqsUpTo(VendorEvents(sProvider), MaxEvents)
    /\ sPc = "start"
    /\ sPos = 0
    /\ sFull = <<>>
    /\ sUsage = NullUsage
    /\ sEvents = <<>>

\* streamResponse is called: the request is sent and awaited. Each step of
\* the adapters that runs a callback of the caller comes in two parts: the
\* adapter's own (...Step), and the action of an adapter called with
\* callbacks that change nothing else.
StreamCallStep ==
    /\ sPc = "start"
    /\ sPc' = "connecting"
    /\ UNCHANGED <<sProvider, sScript, sPos, sFull, sUsage, sEvents>>

StreamCall ==
    /\ StreamCallStep
    /\ UNCHANGED <<storeVars, gateVars>>

\* the awaited request rejects: the outer catch calls onError
ConnectFailStep ==
    /\ sPc = "connecting"
    /\ sPc' = "returned"
    /\ sEvents' = Append(sEvents, ErrorEvent)
    /\ UNCHANGED <<sProvider, sScript, sPos, sFull, sUsage>>

ConnectFail ==
    /\ ConnectFailStep
    /\ UNCHANGED <<storeVars, gateVars>>

\* the awaited request resolves; the mistral adapter registers its 'data' and
\* 'error' handlers and returns, the others enter their for await loop
Connected ==
    /\ sPc = "connecting"
    /\ sPc' = "open"
    /\ UNCHANGED <<storeVars, gateVars, sProvider, sScript, sPos, sFull, sUsage, sEvents>>

\* a network chunk of any size arrives and the 'data' handler runs
MistralDataStep ==
    /\ sProvider = "mistral"
    /\ sPc = "open"
    /\ \E k \in 1..(Len(Wire(sScript)) - sPos) :
          LET chunk == SubSeq(Wire(sScript), sPos + 1, sPos + k)
              st == MistralOnData(sFull, sUsage, chunk)
          IN /\ sPos' = sPos + k
             /\ sFull' = st.fullContent
             /\ sUsage' = st.usage
             /\ sEvents' = sEvents \o st.emitted
    /\ UNCHANGED <<sProvider, sScript, sPc>>

MistralData ==
    /\ MistralDataStep
    /\ UNCHANGED <<storeVars, gateVars>>

\* the transport fails: the 'error' handler calls onError, whatever came before
MistralError ==
    /\ sProvider = "mistral"
    /\ sPc = "open"
    /\ sPc' = "closed"
    /\ sEvents' = Append(sEvents, ErrorEvent)
    /\ UNCHANGED <<storeVars, gateVars, sProvider, sScript, sPos, sFull, sUsage>>

\* the feed ends: no 'end' or 'close' handler is registered
MistralEnd ==
    /\ sProvider = "mistral"
    /\ sPc = "open"
    /\ sPos = Len(Wire(sScript))
    /\ sPc' = "closed"
    /\ UNCHANGED <<storeVars, gateVars, sProvider, sScript, sPos, sFull, sUsage, sEvents>>

\* for await (const chunk of stream): the next vendor event
SdkEventStep ==
    /\ sProvider # "mistral"
    /\ sPc = "open"
    /\ sPos < Len(sScript)
    /\ LET st == SdkOnEvent(sProvider, sFull, sUsage, sScript[sPos + 1])
       IN /\ sFull' = st.fullContent
          /\ sUsage' = st.usage
          /\ sEvents' = sEvents \o st.emitted
    /\ sPos' = sPos + 1
    /\ UNCHANGED <<sProvider, sScript, sPc>>

SdkEvent ==
    /\ SdkEventStep
    /\ UNCHANGED <<storeVars, gateVars>>

\* the iterator (or gemini's awaited result.response) rejects: the catch
\* calls onError
SdkThrowStep ==
    /\ sProvider # "mistral"
    /\ sPc = "open"
    /\ sPc' = "returned"
    /\ sEvents' = Append(sEvents, ErrorEvent)
    /\ UNCHANGED <<sProvider, sScript, sPos, sFull, sUsage>>

SdkThrow ==
    /\ SdkThrowStep
    /\ UNCHANGED <<storeVars, gateVars>>

\* the iterator is exhausted: onComplete({content: fullContent, model, usage})
SdkCompleteStep ==
    /\ sProvider # "mistral"
    /\ sPc = "open"
    /\ sPos = Len(sScript)
    /\ sPc' = "returned"
    /\ \E usage \in CompleteUsages(sProvider, sUsage) :
          sEvents' = Append(sEvents, CompleteEvent(sFull, usage))
    /\ UNCHANGED <<sProvider, sScript, sPos, sFull, sUsage>>

SdkComplete ==
    /\ SdkCompleteStep
    /\ UNCHANGED <<storeVars, gateVars>>

NextStream ==
    \/ StreamCall
    \/ ConnectFail
    \/ Connected
    \/ MistralData
    \/ MistralError
    \/ MistralEnd
    \/ SdkEvent
    \/ SdkThrow
    \/ SdkComplete

SpecStream == InitStream /\ [][NextStream]_vars

\* The raw feed on its own, with a vendor that can also send a line whose
\* payload is not JSON ('data: {He', the closing brace missing); sPrev records
\* where the chunk handled last began.
BrokenEvent == [type |-> "broken", text |-> <<"H", "e">>]

\* the feeds of the raw-feed specification: broken lines before, between and
\* after lines with text, usage and the sentinel
MistralFeeds ==
    {<<BrokenEvent>>,
     <<BrokenEvent, DeltaLlo>>,
     <<DeltaHe, BrokenEvent>>,
     <<BrokenEvent, DoneEvent>>,
     <<DeltaHe, DeltaLlo, DoneEvent>>,
     <<DeltaHe, BrokenEvent, DeltaLlo>>,
     <<BrokenEvent, UsageEvent, DoneEvent>>,
     <<BrokenEvent, BrokenEvent, DeltaLlo>>,
     <<DeltaHe, DoneEvent, BrokenEvent>>,
     <<BrokenEvent, DeltaLlo, DoneEvent>>}

InitMistral ==
    /\ InitStore
    /\ InitNoGate
    /\ script = DefaultScript
    /\ sProvider = "mistral"
    /\ sScript \in MistralFeeds
    /\ sPc = "start"
    /\ sPos = 0
    /\ sFull = <<>>
    /\ sUsage = NullUsage
    /\ sEvents = <<>>

MistralChunk ==
    /\ MistralDataStep
    /\ sPrev' = sPos
    /\ UNCHANGED <<storeVars, req, res, cmp, gen, call, qry, sink>>

NextMistral ==
    \/ StreamCall
    \/ ConnectFail
    \/ Connected
    \/ MistralChunk
    \/ MistralError
    \/ MistralEnd

SpecMistral == InitMistral /\ [][NextMistral]_vars

(***************************************************************************)
(* POST /api/chat, one action per await. Requests are handled one after    *)
(* another; each finds the store as the earlier ones left it, and any      *)
(* write of the store may fail.                                            *)
(***************************************************************************)
MaxRequests == 2

\* the request's provider: one of the five, or a name the switch does not know
RequestProviders == Providers \cup {"other"}

\* response.content of the vendor's answer
ReplyText == Text101

StoreNow == [files |-> files, metadataFile |-> metadataFile]

\* res.status(status).json({error})
JsonError(status, error) ==
    [NoResponse EXCEPT !.status = status, !.ended = TRUE,
        !.body = [kind |-> "error", response |-> <<>>, conversationId |-> "c1",
                  error |-> error]]

\* res.json({response, conversationId, model, usage, timestamp})
JsonReply(content, convId) ==
    [NoResponse EXCEPT !.status = 200, !.ended = TRUE,
        !.body = [kind |-> "reply", response |-> content,
                  conversationId |-> convId, error |-> ""]]

NewRequest(route, provider, convId, message, includeHistory) ==
    [IdleReq EXCEPT !.n = req.n + 1, !.route = route, !.provider = provider, !.convId = convId,
        !.message = message, !.includeHistory = includeHistory,
        !.before = StoreNow]

\* switch (provider.toLowerCase()): the default case answers 400, the others
\* call aiService.generateResponse and await it
ChatDispatch(r) ==
    /\ IF r.provider \in Providers
       THEN /\ req' = [r EXCEPT !.pc = "generate"]
            /\ res' = NoResponse
       ELSE /\ req' = [r EXCEPT !.pc = "done"]
            /\ res' = JsonError(400, "Unsupported AI provider")

\* the handler is entered: with includeHistory it awaits getConversation,
\* without it the history is [] and the provider is dispatched at once
ChatStart ==
    \E provider \in RequestProviders, convId \in ConvIds,
       includeHistory \in BOOLEAN :
        /\ req.pc \in {"idle", "done"}
        /\ AllIdle
        /\ req.n < MaxRequests
        /\ LET r == NewRequest("chat", provider, convId, ShortText,
                               includeHistory)
           IN IF includeHistory
              THEN /\ req' = [r EXCEPT !.pc = "history"]
                   /\ res' = NoResponse
              ELSE ChatDispatch(r)
        /\ UNCHANGED <<storeVars, streamVars, cmp, gen, auxVars>>

\* await conversationManager.getConversation(convId): the log, [] on ENOENT
ChatHistory ==
    /\ req.route = "chat"
    /\ req.pc = "history"
    /\ LET f == files[req.convId]
       IN ChatDispatch([req EXCEPT
                !.history = IF f.exists THEN f.data ELSE <<>>])
    /\ UNCHANGED <<storeVars, streamVars, cmp, gen, auxVars>>

\* a handler that saved the user turn before the generation was known to
\* have succeeded
ChatGenerateFail_UserTurnSaved ==
    /\ req.route = "chat"
    /\ req.pc = "generate"
    /\ req' = [req EXCEPT !.pc = "save_user", !.generated = "failed"]
    /\ StartSave(SeqTask, req.convId, "user", req.message)
    /\ UNCHANGED <<streamVars, res, cmp, gen, auxVars>>

\* generateResponse throws: the catch answers 500 and nothing else is done
ChatGenerateFail ==
    /\ req.route = "chat"
    /\ req.pc = "generate"
    /\ req' = [req EXCEPT !.pc = "done", !.generated = "failed"]
    /\ res' = JsonError(500, "Failed to generate response")
    /\ UNCHANGED <<storeVars, streamVars, cmp, gen, auxVars>>

\* generateResponse returns: assistantMessage is built and
\* saveMessage(convId, userMessage) is called and awaited
ChatGenerateOk ==
    /\ req.route = "chat"
    /\ req.pc = "generate"
    /\ req' = [req EXCEPT !.pc = "save_user", !.generated = "ok",
                          !.content = ReplyText]
    /\ StartSave(SeqTask, req.convId, "user", req.message)
    /\ UNCHANGED <<streamVars, res, cmp, gen, auxVars>>

\* the first saveMessage returned: saveMessage(convId, assistantMessage)
ChatUserSaved ==
    /\ req.route = "chat"
    /\ req.pc = "save_user"
    /\ task[SeqTask].pc = "idle"
    /\ task[SeqTask].result = "ok"
    /\ req' = [req EXCEPT !.pc = "save_assistant"]
    /\ StartSave(SeqTask, req.convId, "assistant", req.content)
    /\ UNCHANGED <<streamVars, res, cmp, gen, auxVars>>

\* the second saveMessage returned: res.json({response, conversationId, ...})
ChatSaved ==
    /\ req.route = "chat"
    /\ req.pc = "save_assistant"
    /\ task[SeqTask].pc = "idle"
    /\ task[SeqTask].result = "ok"
    /\ req' = [req EXCEPT !.pc = "done", !.persisted = "ok"]
    /\ res' = JsonReply(req.content, req.convId)
    /\ UNCHANGED <<storeVars, streamVars, cmp, gen, auxVars>>

\* a saveMessage threw: the same catch answers 500 with the same error
ChatSaveThrown ==
    /\ req.route = "chat"
    /\ req.pc \in {"save_user", "save_assistant"}
    /\ task[SeqTask].pc = "idle"
    /\ task[SeqTask].result = "error"
    /\ req' = [req EXCEPT !.pc = "done", !.persisted = "failed"]
    /\ res' = JsonError(500, "Failed to generate response")
    /\ UNCHANGED <<storeVars, streamVars, cmp, gen, auxVars>>

NextChat ==
    \/ ChatStart
    \/ ChatHistory
    \/ ChatGenerateFail
    \/ ChatGenerateOk
    \/ ChatUserSaved
    \/ ChatSaved
    \/ ChatSaveThrown
    \/ \E t \in Tasks : SaveRead(t)
    \/ \E t \in Tasks : SaveWrite(t)
    \/ \E t \in Tasks : SaveWriteFail(t)
    \/ \E t \in Tasks : MetaRead(t)
    \/ \E t \in Tasks : MetaWrite(t)
    \/ \E t \in Tasks : MetaWriteFail(t)

SpecChat == Init /\ [][NextChat]_vars

(***************************************************************************)
(* POST /api/chat/stream, one action per await, with the callbacks it      *)
(* passes to streamResponse run inside the adapter's steps. Requests are   *)
(* handled one after another.                                              *)
(***************************************************************************)
\* the providers the stream handler's switch knows
StreamingProviders == {"anthropic", "openai"}

\* what the vendor sends for a request of this handler: nothing, one delta,
\* two deltas, two deltas and the usage
StreamScripts ==
    {<<>>, <<DeltaHe>>, <<DeltaHe, DeltaLlo>>, <<DeltaHe, DeltaLlo, UsageEvent>>}

\* data: {"content": chunk}
ContentFrame(text) ==
    [kind |-> "content", text |-> text, error |-> "", conversationId |-> "c1",
     usage |-> NullUsage]

\* data: {"done": true, "conversationId": convId, "usage": usage}
DoneFrame(convId, usage) ==
    [kind |-> "done", text |-> <<>>, error |-> "", conversationId |-> convId,
     usage |-> usage]

\* data: {"error": message}
ErrorFrame(message) ==
    [kind |-> "error", text |-> <<>>, error |-> message,
     conversationId |-> "c1", usage |-> NullUsage]

\* res.write(frame)
Written(r, frame) == [r EXCEPT !.frames = Append(@, frame)]

\* res.write(frame); res.end()
WrittenAndEnded(r, frame) ==
    [r EXCEPT !.frames = Append(@, frame), !.ended = TRUE]

\* onChunk for each chunk the adapter's step passed on
RECURSIVE OnChunks(_, _)
OnChunks(r, emitted) ==
    IF emitted = <<>> THEN r
    ELSE OnChunks(Written(r, ContentFrame(Head(emitted).text)), Tail(emitted))

\* the handler is entered: res.writeHead(200, ...), then getConversation is
\* awaited; the vendor's output for the request is fixed here
ChatStreamStart ==
    \E provider \in RequestProviders, convId \in ConvIds,
       vendor \in StreamScripts :
        /\ req.pc \in {"idle", "done", "rejected"}
        /\ AllIdle
        /\ req.n < MaxRequests
        /\ req' = [NewRequest("stream", provider, convId, ShortText, TRUE)
                      EXCEPT !.pc = "history"]
        /\ res' = [NoResponse EXCEPT !.status = 200]
        /\ IF provider \in StreamingProviders
           THEN sProvider' = provider /\ sScript' = vendor
           ELSE sProvider' = sProvider /\ sScript' = <<>>
        /\ sPc' = "start"
        /\ sPos' = 0
        /\ sFull' = <<>>
        /\ sUsage' = NullUsage
        /\ sEvents' = <<>>
        /\ UNCHANGED <<storeVars, cmp, gen, auxVars>>

\* getConversation rejects (an unreadable or corrupt log): the handler's
\* catch writes its error frame and ends the response
ChatStreamHistoryFail ==
    /\ req.route = "stream"
    /\ req.pc = "history"
    /\ req' = [req EXCEPT !.pc = "done"]
    /\ res' = WrittenAndEnded(res, ErrorFrame("Failed to stream response"))
    /\ UNCHANGED <<storeVars, streamVars, cmp, gen, auxVars>>

\* getConversation returns; the switch's default case writes an error frame
\* and ends the response, the others call aiService.streamResponse
ChatStreamHistory ==
    /\ req.route = "stream"
    /\ req.pc = "history"
    /\ LET f == files[req.convId]
           r == [req EXCEPT !.history = IF f.exists THEN f.data ELSE <<>>]
       IN IF req.provider \in StreamingProviders
          THEN /\ req' = [r EXCEPT !.pc = "streaming"]
               /\ res' = res
               /\ StreamCallStep
          ELSE /\ req' = [r EXCEPT !.pc = "done"]
               /\ res' = WrittenAndEnded(res,
                        ErrorFrame("Streaming not supported for this provider"))
               /\ UNCHANGED streamVars
    /\ UNCHANGED <<storeVars, cmp, gen, auxVars>>

\* an onError that persisted the user turn of the failed stream
OnError_SavesUserTurn ==
    /\ req' = [req EXCEPT !.pc = "save_user"]
    /\ res' = WrittenAndEnded(res, ErrorFrame("error.message"))
    /\ StartSave(SeqTask, req.convId, "user", req.message)
    /\ UNCHANGED <<cmp, gen, auxVars>>

\* onError: the error frame is written and the response ended; streamResponse
\* then returns and the handler with it
OnError ==
    /\ req' = [req EXCEPT !.pc = "done"]
    /\ res' = WrittenAndEnded(res, ErrorFrame("error.message"))
    /\ UNCHANGED <<storeVars, cmp, gen, auxVars>>

\* the adapter's awaited vendor call rejects
ChatStreamConnectFail ==
    /\ req.route = "stream"
    /\ ConnectFailStep
    /\ OnError

\* the adapter's awaited vendor call resolves
ChatStreamConnected ==
    /\ req.route = "stream"
    /\ Connected

\* the adapter's loop takes the next vendor event; onChunk writes a content
\* frame for each chunk passed on
ChatStreamEvent ==
    /\ req.route = "stream"
    /\ SdkEventStep
    /\ res' = OnChunks(res, SubSeq(sEvents', Len(sEvents) + 1, Len(sEvents')))
    /\ UNCHANGED <<storeVars, req, cmp, gen, auxVars>>

\* the vendor's iterator rejects mid-stream
ChatStreamThrow ==
    /\ req.route = "stream"
    /\ SdkThrowStep
    /\ OnError

\* the adapter calls onComplete(fullResponse): assistantMessage is built and
\* saveMessage(convId, userMessage) is called; the adapter does not await
\* the promise onComplete returns, so streamResponse and the handler return
ChatStreamComplete ==
    /\ req.route = "stream"
    /\ SdkCompleteStep
    /\ req' = [req EXCEPT !.pc = "save_user", !.generated = "ok",
                          !.content = sFull]
    /\ StartSave(SeqTask, req.convId, "user", req.message)
    /\ UNCHANGED <<res, cmp, gen, auxVars>>

\* onComplete goes on after its first await: saveMessage(convId, assistantMessage)
ChatStreamUserSaved ==
    /\ req.route = "stream"
    /\ req.pc = "save_user"
    /\ task[SeqTask].pc = "idle"
    /\ task[SeqTask].result = "ok"
    /\ req' = [req EXCEPT !.pc = "save_assistant"]
    /\ StartSave(SeqTask, req.convId, "assistant", req.content)
    /\ UNCHANGED <<streamVars, res, cmp, gen, auxVars>>

\* onComplete goes on after its second await: the done frame is written with
\* fullResponse.usage and the response ended
ChatStreamSaved ==
    /\ req.route = "stream"
    /\ req.pc = "save_assistant"
    /\ task[SeqTask].pc = "idle"
    /\ task[SeqTask].result = "ok"
    /\ req' = [req EXCEPT !.pc = "done", !.persisted = "ok"]
    /\ res' = WrittenAndEnded(res,
                DoneFrame(req.convId, sEvents[Len(sEvents)].usage))
    /\ UNCHANGED <<storeVars, streamVars, cmp, gen, auxVars>>

\* a saveMessage throws inside onComplete: the promise onComplete returned
\* rejects, and nothing awaits or catches it
ChatStreamSaveRejected ==
    /\ req.route = "stream"
    /\ req.pc \in {"save_user", "save_assistant"}
    /\ task[SeqTask].pc = "idle"
    /\ task[SeqTask].result = "error"
    /\ req' = [req EXCEPT !.pc = "rejected", !.persisted = "failed"]
    /\ UNCHANGED <<storeVars, streamVars, res, cmp, gen, auxVars>>

NextChatStream ==
    \/ ChatStreamStart
    \/ ChatStreamHistoryFail
    \/ ChatStreamHistory
    \/ ChatStreamConnectFail
    \/ ChatStreamConnected
    \/ ChatStreamEvent
    \/ ChatStreamThrow
    \/ ChatStreamComplete
    \/ ChatStreamUserSaved
    \/ ChatStreamSaved
    \/ ChatStreamSaveRejected
    \/ \E t \in Tasks : SaveRead(t)
    \/ \E t \in Tasks : SaveWrite(t)
    \/ \E t \in Tasks : SaveWriteFail(t)
    \/ \E t \in Tasks : MetaRead(t)
    \/ \E t \in Tasks : MetaWrite(t)
    \/ \E t \in Tasks : MetaWriteFail(t)

SpecChatStream == Init /\ [][NextChatStream]_vars

(***************************************************************************)
(* The same handler with a caller that may close its connection while the  *)
(* request is being served. The handler registers no listener for the      *)
(* close, so none of its steps looks at it.                                *)
(***************************************************************************)
\* the caller closes the connection of the request being served; the frames
\* written so far are the ones it was sent
ClientClose ==
    /\ req.route = "stream"
    /\ req.pc \notin {"idle", "done", "rejected"}
    /\ ~res.ended
    /\ ~(sink.closed /\ sink.n = req.n)
    /\ sink' = [closed |-> TRUE, n |-> req.n, frames |-> Len(res.frames)]
    /\ UNCHANGED <<storeVars, streamVars, req, res, cmp, gen, call, qry, sPrev>>

NextChatStreamClose ==
    \/ NextChatStream
    \/ ClientClose

SpecChatStreamClose == Init /\ [][NextChatStreamClose]_vars

(***************************************************************************)
(* POST /api/compare: one branch per requested provider, each awaiting its *)
(* adapter's generateResponse; the branches settle in any order.           *)
(***************************************************************************)
MaxProviders == 2

\* response.content of a provider's answer, and the message of its error
VendorContent(provider) == <<provider>>
VendorError(provider) == <<provider, " API error">>

\* getAIService(provider): undefined for a name that is not a key
getAIService(provider) ==
    IF provider \in Providers THEN [defined |-> TRUE, service |-> provider]
    ELSE [defined |-> FALSE, service |-> "undefined"]

\* the message of the TypeError of aiService.generateResponse on undefined
TypeErrorMessage == <<"TypeError">>

Pending == [status |-> "pending", value |-> <<>>, reason |-> <<>>]
Fulfilled(value) == [status |-> "fulfilled", value |-> value, reason |-> <<>>]
Rejected(message) == [status |-> "rejected", value |-> <<>>, reason |-> message]

\* the async callback of providers.map up to its first await: it rejects at
\* once when there is no service, and otherwise awaits generateResponse
BranchStarted(provider) ==
    IF getAIService(provider).defined THEN Pending
    ELSE Rejected(TypeErrorMessage)

\* outcomes listed in the order the branches settled
AllSettled_InSettleOrder(responses, order) ==
    [i \in DOMAIN responses |->
        IF i <= Len(order) THEN responses[order[i]] ELSE responses[i]]

\* Promise.allSettled: the outcomes in the order of the input, whatever the
\* order the branches settled in
AllSettled(responses, order) == responses

\* responses.map((result, index) => ({provider: providers[index], status,
\* response: fulfilled ? value : null, error: rejected ? reason.message : null}))
CompareResults(providers, responses) ==
    [index \in DOMAIN responses |->
        LET result == responses[index]
        IN [provider |-> providers[index],
            status |-> result.status,
            response |-> IF result.status = "fulfilled"
                         THEN [isNull |-> FALSE, content |-> result.value]
                         ELSE [isNull |-> TRUE, content |-> <<>>],
            error |-> IF result.status = "rejected"
                      THEN [isNull |-> FALSE, message |-> result.reason]
                      ELSE [isNull |-> TRUE, message |-> <<>>]]]

\* the indexes of the branches that have settled, those settled at the call
\* first
SettledAtStart(responses) ==
    LET done == {i \in DOMAIN responses : responses[i].status # "pending"}
    IN [k \in 1..Cardinality(done) |->
            CHOOSE i \in done : Cardinality({j \in done : j < i}) = k - 1]

\* the handler is entered and every branch runs up to its first await
CompareStart ==
    \E providers \in SeqsUpTo(RequestProviders, MaxProviders) :
        /\ cmp.pc = "idle"
        /\ LET responses ==
                   [i \in DOMAIN providers |-> BranchStarted(providers[i])]
           IN cmp' = [cmp EXCEPT !.pc = "awaiting", !.providers = providers,
                           !.responses = responses,
                           !.order = SettledAtStart(responses)]
        /\ UNCHANGED <<storeVars, streamVars, req, res, gen, auxVars>>

\* a branch's generateResponse returns: the branch fulfils with
\* {provider, model, content, usage}
BranchFulfilled(i) ==
    /\ cmp.pc = "awaiting"
    /\ cmp.responses[i].status = "pending"
    /\ cmp' = [cmp EXCEPT
            !.responses[i] = Fulfilled(VendorContent(cmp.providers[i])),
            !.order = Append(@, i)]
    /\ UNCHANGED <<storeVars, streamVars, req, res, gen, auxVars>>

\* a branch's generateResponse throws: the branch rejects with the error
BranchRejected(i) ==
    /\ cmp.pc = "awaiting"
    /\ cmp.responses[i].status = "pending"
    /\ cmp' = [cmp EXCEPT
            !.responses[i] = Rejected(VendorError(cmp.providers[i])),
            !.order = Append(@, i)]
    /\ UNCHANGED <<storeVars, streamVars, req, res, gen, auxVars>>

\* every branch has settled: the results are built and res.json({results})
CompareSettled ==
    /\ cmp.pc = "awaiting"
    /\ \A i \in DOMAIN cmp.responses : cmp.responses[i].status # "pending"
    /\ cmp' = [cmp EXCEPT !.pc = "done",
            !.results = CompareResults(cmp.providers,
                            AllSettled(cmp.responses, cmp.order))]
    /\ UNCHANGED <<storeVars, streamVars, req, res, gen, auxVars>>

NextCompare ==
    \/ CompareStart
    \/ \E i \in DOMAIN cmp.responses : BranchFulfilled(i)
    \/ \E i \in DOMAIN cmp.responses : BranchRejected(i)
    \/ CompareSettled

SpecCompare == Init /\ [][NextCompare]_vars

(***************************************************************************)
(* generateResponse of the five adapters, for every usage object the       *)
(* vendor's response can carry.                                            *)
(***************************************************************************)
InitGenerate ==
    /\ InitStore
    /\ script = DefaultScript
    /\ InitNoStream
    /\ InitNoChat
    /\ InitNoCompare
    /\ InitNoAux
    /\ \E provider \in Providers, vendor \in VendorUsages :
          gen = [IdleGenerate EXCEPT !.provider = provider, !.vendor = vendor]

\* generateResponse is called: the request is sent and awaited
GenerateCall ==
    /\ gen.pc = "idle"
    /\ gen' = [gen EXCEPT !.pc = "awaiting"]
    /\ UNCHANGED <<storeVars, streamVars, req, res, cmp, auxVars>>

\* the vendor call rejects: the catch logs and throws '... API error: ...'
GenerateFail ==
    /\ gen.pc = "awaiting"
    /\ gen' = [gen EXCEPT !.pc = "thrown"]
    /\ UNCHANGED <<storeVars, streamVars, req, res, cmp, auxVars>>

\* the vendor call resolves: {content, model, usage} is built and returned,
\* or building it throws into the same catch
GenerateReturn ==
    /\ gen.pc = "awaiting"
    /\ IF ~gen.vendor.present /\ ThrowsOnMissingUsage(gen.provider)
       THEN gen' = [gen EXCEPT !.pc = "thrown"]
       ELSE gen' = [gen EXCEPT !.pc = "returned",
                        !.usage = GenerateUsage(gen.provider, gen.vendor)]
    /\ UNCHANGED <<storeVars, streamVars, req, res, cmp, auxVars>>

NextGenerate ==
    \/ GenerateCall
    \/ GenerateFail
    \/ GenerateReturn

SpecGenerate == InitGenerate /\ [][NextGenerate]_vars

(***************************************************************************)
(* The parameters of a chat request on their way to the vendor: the        *)
(* validator, the handler's destructuring defaults, the provider switch    *)
(* and the adapter's own parameter defaults.                               *)
(***************************************************************************)
\* a field the request body does not have
Missing == "<undefined>"

\* maxTokens = 1000 in the handler and in every generateResponse
DefaultMaxTokens == 1000
\* max_tokens: 1000 in every streamResponse
StreamMaxTokens == 1000
\* tokens > 4000 is rejected by the validator
MaxTokensLimit == 4000

\* provider = 'anthropic', model = 'claude-3-sonnet'
DefaultProvider == "anthropic"
DefaultModel == "claude-3-sonnet"

\* a destructuring default: used only for undefined (a name, a number)
OrDefault(v, d) == IF v = Missing THEN d ELSE v
OrDefaultNumber(v, d) == IF v = Undefined THEN d ELSE v

\* String.prototype.toLowerCase(), for the names the model's callers send
ToLowerCase(s) == IF s = "OpenAI" THEN "openai" ELSE s

getDefaultModel(provider) ==
    CASE provider = "anthropic" -> "claude-3-sonnet"
      [] provider = "openai" -> "gpt-4"
      [] provider = "gemini" -> "gemini-pro"
      [] provider = "mistral" -> "mistral-large"
      [] provider = "cohere" -> "command"
      [] OTHER -> "claude-3-sonnet"

\* the default of the model parameter of the adapter's methods
AdapterDefaultModel(provider) ==
    CASE provider = "anthropic" -> "claude-3-sonnet-20240229"
      [] provider = "openai" -> "gpt-4"
      [] provider = "gemini" -> "gemini-pro"
      [] provider = "mistral" -> "mistral-large-latest"
      [] provider = "cohere" -> "command"

\* validateChatRequest, as far as it looks at provider and maxTokens
ValidChatRequest(body) ==
    /\ body.provider \in {Missing} \cup {"OpenAI"} \cup Providers
    /\ body.maxTokens # Undefined
       => (body.maxTokens.n >= 1 /\ body.maxTokens.n <= MaxTokensLimit)

\* the switch of the handler: every adapter for /api/chat, two for the stream
Dispatched(route, provider) ==
    IF route = "chat" THEN ToLowerCase(provider) \in Providers
    ELSE ToLowerCase(provider) \in {"anthropic", "openai"}

\* what the handler passes to the adapter: the stream handler reads no
\* maxTokens from the body and passes none
Destructured(route, body) ==
    [provider |-> OrDefault(body.provider, DefaultProvider),
     model |-> OrDefault(body.model, DefaultModel),
     maxTokens |-> IF route = "chat"
                   THEN OrDefaultNumber(body.maxTokens, Num(DefaultMaxTokens))
                   ELSE Undefined]

\* what the adapter sends to the vendor: generateResponse sends its maxTokens
\* parameter, streamResponse has no such parameter and sends 1000
VendorRequest(route, provider, model, maxTokens) ==
    [model |-> OrDefault(model, AdapterDefaultModel(provider)),
     maxTokens |-> IF route = "chat"
                   THEN OrDefaultNumber(maxTokens, Num(DefaultMaxTokens))
                   ELSE Num(StreamMaxTokens)]

RequestBodies ==
    [provider : {Missing, "OpenAI", "other"} \cup Providers,
     model : {Missing, "gpt-4-turbo"},
     maxTokens : {Undefined, Num(1), Num(DefaultMaxTokens),
                  Num(MaxTokensLimit), Num(MaxTokensLimit + 1)}]

InitCall ==
    /\ InitStore
    /\ script = DefaultScript
    /\ InitNoStream
    /\ InitNoChat
    /\ InitNoCompare
    /\ InitNoGenerate
    /\ qry = IdleQuery
    /\ sink = OpenSink
    /\ sPrev = 0
    /\ \E route \in {"chat", "stream"}, body \in RequestBodies :
          call = [IdleCall EXCEPT !.route = route, !.body = body]

\* the validator answers 400
CallInvalid ==
    /\ call.pc = "idle"
    /\ ~ValidChatRequest(call.body)
    /\ call' = [call EXCEPT !.pc = "rejected"]
    /\ UNCHANGED <<storeVars, streamVars, req, res, cmp, gen, qry, sink, sPrev>>

\* the validator calls next(): the handler destructures the body
CallReceived ==
    /\ call.pc = "idle"
    /\ ValidChatRequest(call.body)
    /\ LET d == Destructured(call.route, call.body)
       IN call' = [call EXCEPT !.pc = "received", !.provider = d.provider,
                       !.model = d.model, !.maxTokens = d.maxTokens]
    /\ UNCHANGED <<storeVars, streamVars, req, res, cmp, gen, qry, sink, sPrev>>

\* the default case of the switch: no adapter is called
CallUnsupported ==
    /\ call.pc = "received"
    /\ ~Dispatched(call.route, call.provider)
    /\ call' = [call EXCEPT !.pc = "rejected"]
    /\ UNCHANGED <<storeVars, streamVars, req, res, cmp, gen, qry, sink, sPrev>>

\* the adapter's method is called and sends the request to the vendor
CallSent ==
    /\ call.pc = "received"
    /\ Dispatched(call.route, call.provider)
    /\ call' = [call EXCEPT !.pc = "sent",
                    !.sent = VendorRequest(call.route, ToLowerCase(call.provider),
                                           call.model, call.maxTokens)]
    /\ UNCHANGED <<storeVars, streamVars, req, res, cmp, gen, qry, sink, sPrev>>

NextCall ==
    \/ CallInvalid
    \/ CallReceived
    \/ CallUnsupported
    \/ CallSent

SpecCall == InitCall /\ [][NextCall]_vars

(***************************************************************************)
(* The reads of the store: getConversations, searchConversations,          *)
(* getConversationStats and getConversation, each made on a store that     *)
(* the calls of saveMessage, importConversation and deleteConversation     *)
(* have left, and the last step of its run.                                *)
(***************************************************************************)
\* getConversation(conversationId) on the store as it is
getConversation(conversationId) ==
    IF files[conversationId].exists THEN files[conversationId].data ELSE <<>>

\* Object.values(metadata).reduce((sum, conv) => sum + conv.messageCount, 0)
RECURSIVE SumMessageCounts(_, _)
SumMessageCounts(metadata, ids) ==
    IF ids = {} THEN 0
    ELSE LET id == CHOOSE x \in ids : TRUE
         IN metadata[id].messageCount + SumMessageCounts(metadata, ids \ {id})

\* Math.round(a / b) for a >= 0 and b > 0
Round(a, b) == (2 * a + b) \div (2 * b)

\* getConversationStats() on the store as it is: without a metadata file the
\* two totals are 0 and there is no average
getConversationStats ==
    IF ~metadataFile.exists
    THEN [totalConversations |-> 0, totalMessages |-> 0,
          averageMessagesPerConversation |-> [exists |-> FALSE, value |-> 0]]
    ELSE LET metadata == metadataFile.data
             totalConversations == Cardinality(DOMAIN metadata)
             totalMessages == SumMessageCounts(metadata, DOMAIN metadata)
         IN [totalConversations |-> totalConversations,
             totalMessages |-> totalMessages,
             averageMessagesPerConversation |->
                [exists |-> TRUE,
                 value |-> IF totalConversations > 0
                           THEN Round(totalMessages, totalConversations)
                           ELSE 0]]

\* const { limit = 20, offset = 0 } = req.query
DefaultLimit == 20
DefaultOffset == 0

\* a JavaScript number and a JavaScript string of decimal digits
JsNumber(n) == [t |-> "number", n |-> n, s |-> <<>>]
JsString(s) == [t |-> "string", n |-> 0, s |-> s]

DigitChars == <<"0", "1", "2", "3", "4", "5", "6", "7", "8", "9">>

\* Number("12") = 12, Number("") = 0
RECURSIVE DigitsValue(_)
DigitsValue(s) ==
    IF s = <<>> THEN 0
    ELSE 10 * DigitsValue(SubSeq(s, 1, Len(s) - 1))
         + (CHOOSE d \in 0..9 : DigitChars[d + 1] = s[Len(s)])

\* String(12) = "12"
RECURSIVE Digits(_)
Digits(n) ==
    IF n < 10 THEN <<DigitChars[n + 1]>>
    ELSE Append(Digits(n \div 10), DigitChars[(n % 10) + 1])

ToNumber(v) == IF v.t = "number" THEN v.n ELSE DigitsValue(v.s)
JsToString(v) == IF v.t = "string" THEN v.s ELSE Digits(v.n)

\* a + b: the sum of two numbers, otherwise the concatenation of the strings
JsPlus(a, b) ==
    IF a.t = "number" /\ b.t = "number" THEN JsNumber(a.n + b.n)
    ELSE JsString(JsToString(a) \o JsToString(b))

\* Array.prototype.slice(start, end), its arguments converted to integers
Slice(a, start, end) ==
    SubSeq(a, ToNumber(start) + 1, Min(ToNumber(end), Len(a)))

\* Object.entries(metadata).sort by lastUpdated, newest first, as ids
RECURSIVE SortedByLastUpdated(_, _)
SortedByLastUpdated(metadata, ids) ==
    IF ids = {} THEN <<>>
    ELSE LET newest == CHOOSE a \in ids : \A b \in ids :
                           metadata[a].lastUpdated >= metadata[b].lastUpdated
         IN <<newest>> \o SortedByLastUpdated(metadata, ids \ {newest})

\* getConversations(limit, offset): a missing metadata file reads as {}
getConversations(limit, offset) ==
    LET metadata == IF metadataFile.exists THEN metadataFile.data
                    ELSE EmptyMetadata
        window == Slice(SortedByLastUpdated(metadata, DOMAIN metadata),
                        offset, JsPlus(offset, limit))
    IN [i \in 1..Len(window) |-> [id |-> window[i], data |-> metadata[window[i]]]]

\* the values of limit and offset in a query string, and no value
QueryParams == {<<>>, <<"0">>, <<"1">>, <<"2">>}
NoParam == <<>>

\* a parameter of the query string is a string; a missing one is the
\* handler's default, a number
ParamOr(param, default) ==
    IF param = NoParam THEN JsNumber(default) ELSE JsString(param)

\* GET /api/conversations
ListQuery ==
    /\ AllIdle
    /\ qry.pc = "idle"
    /\ \E limit \in QueryParams, offset \in QueryParams \ {<<"2">>} :
          LET args == [limit |-> ParamOr(limit, DefaultLimit),
                       offset |-> ParamOr(offset, DefaultOffset)]
          IN qry' = [pc |-> "done", op |-> "list", args |-> args,
                     result |-> getConversations(args.limit, args.offset)]
    /\ UNCHANGED <<storeVars, streamVars, req, res, cmp, gen, call, sink, sPrev>>

\* results.length >= limit is tested with limits up to this
MaxLimit == 2

\* preview: content.substring(0, 200) + '...'
SearchPreviewLen == 200

UpperCaseLetters ==
    <<"A","B","C","D","E","F","G","H","I","J","K","L","M","N","O","P","Q","R",
      "S","T","U","V","W","X","Y","Z">>
LowerCaseLetters ==
    <<"a","b","c","d","e","f","g","h","i","j","k","l","m","n","o","p","q","r",
      "s","t","u","v","w","x","y","z">>

\* String.prototype.toLowerCase() on a text
toLowerCase(s) ==
    [i \in 1..Len(s) |->
        IF \E k \in 1..26 : UpperCaseLetters[k] = s[i]
        THEN LowerCaseLetters[CHOOSE k \in 1..26 : UpperCaseLetters[k] = s[i]]
        ELSE s[i]]

\* String.prototype.includes(q)
includes(s, q) ==
    \E i \in 0..(Len(s) - Len(q)) : SubSeq(s, i + 1, i + Len(q)) = q

\* conversation.filter(msg => msg.content.toLowerCase().includes(query.toLowerCase()))
MatchingMessages(conversation, query) ==
    SelectSeq(conversation,
              LAMBDA msg : includes(toLowerCase(msg.content), toLowerCase(query)))

\* the for loop over the conversation files, in the order readdir gave them:
\* a conversation with a match is pushed, and the loop is left as soon as
\* results.length >= limit
RECURSIVE SearchLoop(_, _, _, _)
SearchLoop(conversationFiles, query, limit, results) ==
    IF conversationFiles = <<>> THEN results
    ELSE LET conversationId == Head(conversationFiles)
             matchingMessages ==
                 MatchingMessages(getConversation(conversationId), query)
             pushed ==
                 IF Len(matchingMessages) > 0
                 THEN Append(results,
                        [conversationId |-> conversationId,
                         matches |-> Len(matchingMessages),
                         preview |-> Substring0(matchingMessages[1].content,
                                                SearchPreviewLen) \o Ellipsis])
                 ELSE results
         IN IF Len(pushed) >= limit THEN pushed
            ELSE SearchLoop(Tail(conversationFiles), query, limit, pushed)

\* results.sort((a, b) => b.matches - a.matches): stable, most matches first
RECURSIVE SortedByMatches(_)
SortedByMatches(results) ==
    IF results = <<>> THEN <<>>
    ELSE LET first == CHOOSE i \in 1..Len(results) :
                         /\ \A j \in 1..Len(results) :
                               results[i].matches >= results[j].matches
                         /\ \A j \in 1..(i - 1) :
                               results[j].matches < results[i].matches
         IN <<results[first]>>
            \o SortedByMatches(SubSeq(results, 1, first - 1)
                               \o SubSeq(results, first + 1, Len(results)))

\* searchConversations(query, limit) when readdir lists the files in this order
searchConversations(conversationFiles, query, limit) ==
    SortedByMatches(SearchLoop(conversationFiles, query, limit, <<>>))

\* the orders in which readdir can list the conversation files
ReaddirOrders ==
    LET ids == {id \in ConvIds : files[id].exists}
    IN {order \in UNION {[1..k -> ids] : k \in {Cardinality(ids)}} :
            \A i, j \in DOMAIN order : i # j => order[i] # order[j]}

SearchQueries == {<<"h", "i">>, <<"H", "I">>, <<"b">>, <<"z">>}

SearchQuery ==
    /\ AllIdle
    /\ qry.pc = "idle"
    /\ \E conversationFiles \in ReaddirOrders, query \in SearchQueries,
          limit \in 0..MaxLimit :
          qry' = [pc |-> "done", op |-> "search",
                  args |-> [query |-> query, limit |-> limit],
                  result |-> searchConversations(conversationFiles, query, limit)]
    /\ UNCHANGED <<storeVars, streamVars, req, res, cmp, gen, call, sink, sPrev>>

StatsQuery ==
    /\ AllIdle
    /\ qry.pc = "idle"
    /\ qry' = [pc |-> "done", op |-> "stats", args |-> <<>>,
               result |-> getConversationStats]
    /\ UNCHANGED <<storeVars, streamVars, req, res, cmp, gen, call, sink, sPrev>>

\* a read that made the missing log on its way
GetQuery_CreatesLog ==
    /\ AllIdle
    /\ qry.pc = "idle"
    /\ \E id \in ConvIds :
          /\ qry' = [pc |-> "done", op |-> "get", args |-> id,
                     result |-> getConversation(id)]
          /\ files' = [files EXCEPT ![id] = [exists |-> TRUE, data |-> @.data]]
    /\ UNCHANGED <<metadataFile, task, clock, calls, saved, overlapped, script,
                   created, streamVars, req, res, cmp, gen, call, sink, sPrev>>

\* GET /api/conversations/:id: getConversation reads the log; ENOENT is []
GetQuery ==
    /\ AllIdle
    /\ qry.pc = "idle"
    /\ \E id \in ConvIds :
          qry' = [pc |-> "done", op |-> "get", args |-> id,
                  result |-> getConversation(id)]
    /\ UNCHANGED <<storeVars, streamVars, req, res, cmp, gen, call, sink, sPrev>>

\* saveMessage, importConversation and deleteConversation until a read is made
StoreStep ==
    /\ qry.pc = "idle"
    /\ NextCrud

NextRead ==
    \/ StoreStep
    \/ ListQuery
    \/ SearchQuery
    \/ StatsQuery
    \/ GetQuery

SpecRead == Init /\ [][NextRead]_vars

\* generateTitle on its own, over every short content of letters, spaces,
\* tabs, newlines and punctuation
MaxTitleLen == 4

TitleChars == {"a", " ", "\t", "\n", "!"}

TitleContents == UNION {[1..k -> TitleChars] : k \in 0..MaxTitleLen}

TitleCall ==
    /\ AllIdle
    /\ \E content \in TitleContents :
          qry' = [pc |-> "done", op |-> "title", args |-> content,
                  result |-> generateTitle(content)]
    /\ UNCHANGED <<storeVars, streamVars, req, res, cmp, gen, call, sink, sPrev>>

SpecTitle == Init /\ [][TitleCall]_vars

(***************************************************************************)
(* formatMessages of the gemini and cohere adapters.                       *)
(***************************************************************************)
\* 'I understand.'
GeminiAcknowledgment ==
    <<"I", " ", "u", "n", "d", "e", "r", "s", "t", "a", "n", "d", ".">>

\* { role, parts: [{ text }] }
GeminiTurn(role, text) == [role |-> role, text |-> text]

\* GeminiService.formatMessages(messages, systemPrompt): with a system prompt
\* (a non-empty text) the two synthetic turns come first; every message is
\* mapped on its own, 'assistant' to 'model' and any other role to 'user'
GeminiFormatMessages(messages, systemPrompt) ==
    (IF systemPrompt # <<>>
     THEN <<GeminiTurn("user", systemPrompt),
            GeminiTurn("model", GeminiAcknowledgment)>>
     ELSE <<>>)
    \o [i \in 1..Len(messages) |->
           GeminiTurn(IF messages[i].role = "assistant" THEN "model" ELSE "user",
                      messages[i].content)]

\* messages: [...history, userMessage], as the chat handler passes them
RequestMessages ==
    [i \in 1..Len(req.history) |->
        [role |-> req.history[i].role, content |-> req.history[i].content]]
    \o <<[role |-> "user", content |-> req.message]>>

\* Array.prototype.slice(0, -1): all but the last element
SliceButLast(a) == SubSeq(a, 1, Len(a) - 1)

\* CohereService.formatMessages(messages)
CohereFormatMessages(messages) ==
    [i \in 1..Len(messages) |->
        [role |-> IF messages[i].role = "assistant" THEN "CHATBOT" ELSE "USER",
         message |-> messages[i].content]]

\* an adapter that formats the whole sequence into the history
CohereChatRequest_HistoryWithLast(messages) ==
    [message |-> messages[Len(messages)].content,
     chatHistory |-> CohereFormatMessages(messages)]

\* CohereService.generateResponse: the message and chatHistory fields of the
\* client.chat call
CohereChatRequest(messages) ==
    [message |-> messages[Len(messages)].content,
     chatHistory |-> CohereFormatMessages(SliceButLast(messages))]

\* The cohere adapter on its own, over every short non-empty sequence of
\* turns of the three roles
MaxTurns == 3

TurnRoles == {"user", "assistant", "system"}

Turns == [role : TurnRoles, content : {ShortText, <<"o", "k">>}]

CohereCall ==
    /\ AllIdle
    /\ \E messages \in UNION {[1..k -> Turns] : k \in 1..MaxTurns} :
          qry' = [pc |-> "done", op |-> "cohere", args |-> messages,
                  result |-> CohereChatRequest(messages)]
    /\ UNCHANGED <<storeVars, streamVars, req, res, cmp, gen, call, sink, sPrev>>

SpecCohere == Init /\ [][CohereCall]_vars

\* the same calls, read back with getConversation alone
NextGet ==
    \/ StoreStep
    \/ GetQuery

SpecGet == Init /\ [][NextGet]_vars

(***************************************************************************)
(* Claims about the Conversation Store.                                    *)
(***************************************************************************)
\* the message a stored entry was made from
MessageOf(entry) ==
    [role |-> entry.role, content |-> entry.content,
     timestamp |-> entry.timestamp]

InLog(id, message) ==
    /\ files[id].exists
    /\ \E i \in 1..Len(files[id].data) : MessageOf(files[id].data[i]) = message

HasRecord(id) == metadataFile.exists /\ id \in DOMAIN metadataFile.data

\* C1: two saveMessage calls on the same conversation id that overlap are
\* atomic with respect to each other: once both have returned, the log holds
\* both messages and the record's messageCount has grown by 2 (from none).
C1_SameIdAppendsAtomic ==
    \A id \in ConvIds :
        ( /\ AllIdle
          /\ overlapped
          /\ Len(saved[id]) = 2
          /\ \A o \in ConvIds \ {id} : saved[o] = <<>> )
        => /\ InLog(id, saved[id][1])
           /\ InLog(id, saved[id][2])
           /\ HasRecord(id)
           /\ metadataFile.data[id].messageCount = 2

\* C2: two overlapping saveMessage calls on different conversation ids both
\* reach the shared index: once both have returned, each id has a record
\* whose messageCount and lastMessage are those of its own append.
C2_DifferentIdsBothIndexed ==
    ( /\ AllIdle
      /\ overlapped
      /\ \A id \in ConvIds : Len(saved[id]) = 1 )
    => \A id \in ConvIds :
          /\ HasRecord(id)
          /\ metadataFile.data[id].messageCount = 1
          /\ metadataFile.data[id].lastMessage.role = saved[id][1].role
          /\ metadataFile.data[id].lastMessage.timestamp = saved[id][1].timestamp

\* C3: after N sequential saveMessage calls on one id the log holds exactly
\* the min(N, 50) most recently appended messages, in append order.
C3_HistoryCap ==
    \A id \in ConvIds :
        AllIdle =>
            LET n == Len(saved[id])
                kept == IF n < MaxHistory THEN n ELSE MaxHistory
            IN IF n = 0 THEN ~files[id].exists
               ELSE /\ files[id].exists
                    /\ Len(files[id].data) = kept
                    /\ \A i \in 1..kept :
                          MessageOf(files[id].data[i]) = saved[id][n - kept + i]

\* more than 50 appends were made and the log was cut to 50
C3_Witness ==
    /\ AllIdle
    /\ Len(saved[script.id]) > MaxHistory
    /\ Len(files[script.id].data) = MaxHistory

\* C4: after N >= 1 sequential saveMessage calls on one id the record has
\* messageCount = N and lastMessage = the N-th message's role, timestamp and
\* content, the content cut to 100 characters plus "..." when it is longer.
C4_MetadataConsistency ==
    \A id \in ConvIds :
        (AllIdle /\ saved[id] # <<>>) =>
            LET n == Len(saved[id])
                last == saved[id][n]
                c == last.content
            IN /\ HasRecord(id)
               /\ metadataFile.data[id].messageCount = n
               /\ metadataFile.data[id].lastMessage.role = last.role
               /\ metadataFile.data[id].lastMessage.timestamp = last.timestamp
               /\ metadataFile.data[id].lastMessage.content =
                     IF Len(c) > 100
                     THEN [i \in 1..103 |-> IF i <= 100 THEN c[i] ELSE "."]
                     ELSE c

\* the log has been truncated and the last message is longer than 100
C4_Witness ==
    /\ AllIdle
    /\ Len(saved[script.id]) > MaxHistory
    /\ HasRecord(script.id)
    /\ metadataFile.data[script.id].messageCount = Len(saved[script.id])
    /\ Len(saved[script.id][Len(saved[script.id])].content) > PreviewLen

\* C5: whenever no call is in flight, the metadata index has a record for a
\* conversation id exactly when a log exists for that id.
C5_IndexAgreesWithLogs ==
    AllIdle => \A id \in ConvIds : HasRecord(id) <=> files[id].exists

\* C16: deleteConversation on an id that was never created does not fail, and
\* leaves the store as it was: getConversationStats gives the same answer
\* before and after each of its steps.
C16_DeleteUnknownIsNoOp ==
    [][\A t \in Tasks :
          (task[t].op = "delete" /\ task[t].id \notin created)
          => /\ task'[t].result # "error"
             /\ getConversationStats' = getConversationStats]_vars

\* getConversation(conversationId) on the store as it is: [] on ENOENT
\* C17: no step of deleteConversation(id) changes the log or the record of
\* another id, and when the call has returned, getConversation(id) is the
\* empty sequence and the metadata index has no record for id.
C17_DeleteRemovesOnlyItsOwn ==
    [][\A t \in Tasks, id \in ConvIds :
          (task[t].op = "delete" /\ task[t].id = id) =>
              /\ \A o \in ConvIds \ {id} :
                    /\ files'[o] = files[o]
                    /\ HasRecord(o)' = HasRecord(o)
                    /\ HasRecord(o) =>
                          metadataFile'.data[o] = metadataFile.data[o]
              /\ (task'[t].pc = "idle" /\ task'[t].result = "ok")
                 => /\ getConversation(id)' = <<>>
                    /\ ~HasRecord(id)']_vars

\* a conversation that had a log and a record has been deleted, and another
\* one is still there with its log and its record
C17_Witness ==
    /\ AllIdle
    /\ task[SeqTask].result = "ok"
    /\ \E id \in created :
          /\ saved[id] # <<>>
          /\ ~files[id].exists
          /\ ~HasRecord(id)
          /\ \E o \in ConvIds \ {id} : files[o].exists /\ HasRecord(o)

\* C18: the title of a conversation's record is the one generated from the
\* first message appended, and it stays so through every later saveMessage
\* to the same id, whatever the later content.
C18_TitleFixedAtFirstAppend ==
    \A id \in ConvIds :
        (HasRecord(id) /\ saved[id] # <<>>) =>
            metadataFile.data[id].title = generateTitle(saved[id][1].content)

\* more than one message was appended, and the last one would have given
\* another title
C18_Witness ==
    /\ AllIdle
    /\ Len(saved[script.id]) >= 2
    /\ HasRecord(script.id)
    /\ metadataFile.data[script.id].messageCount = Len(saved[script.id])
    /\ generateTitle(saved[script.id][Len(saved[script.id])].content)
          # metadataFile.data[script.id].title

(***************************************************************************)
(* Claims about streamResponse.                                            *)
(***************************************************************************)
IsTerminal(e) == e.kind \in {"complete", "error"}

TerminalCalls == {i \in DOMAIN sEvents : IsTerminal(sEvents[i])}

\* the streamResponse call and its stream are over
StreamOver == sPc \in {"closed", "returned"}

RECURSIVE ConcatTexts(_)
ConcatTexts(items) ==
    IF items = <<>> THEN <<>>
    ELSE Head(items).text \o ConcatTexts(Tail(items))

\* the payloads passed to onChunk, in order
ChunkPayloads ==
    LET chunks == SelectSeq(sEvents, LAMBDA e : e.kind = "chunk")
    IN [i \in DOMAIN chunks |-> chunks[i].text]

\* a well-formed vendor output: the raw feed ends with its one [DONE]
WellFormed ==
    sProvider = "mistral" =>
        /\ sScript # <<>>
        /\ \A i \in DOMAIN sScript :
              sScript[i].type = "done" <=> i = Len(sScript)

\* the vendor's non-empty content deltas, in order
VendorDeltas ==
    LET deltas == SelectSeq(sScript, LAMBDA ev : ev.text # <<>>)
    IN [i \in DOMAIN deltas |-> deltas[i].text]

\* the content generateResponse returns for the same request from the same
\* deterministic vendor: the vendor's whole text
GenerateContent == ConcatTexts(sScript)

\* C6: over the life of a stream at most one terminal callback is invoked:
\* never onComplete and onError both, never one of them twice.
C6_OneTerminal == Cardinality(TerminalCalls) <= 1

\* C7: onChunk is never invoked after a terminal callback.
C7_NoChunkAfterTerminal ==
    \A i \in DOMAIN sEvents, j \in DOMAIN sEvents :
        (i < j /\ IsTerminal(sEvents[i])) => sEvents[j].kind # "chunk"

\* C8: once the vendor stream has ended, a terminal callback has been
\* invoked.
C8_TerminalOnceOver == StreamOver => TerminalCalls # {}

\* C9: in the raw-stream adapter every data line of a well-formed feed that
\* was delivered whole, however it was cut into chunks, has produced one
\* onChunk call with its full delta text.
C9_SplitLinesReassembled ==
    ( /\ sProvider = "mistral"
      /\ WellFormed
      /\ sPos = Len(Wire(sScript))
      /\ \A i \in DOMAIN sEvents : sEvents[i].kind # "error" )
    => ChunkPayloads = VendorDeltas

\* C10: when a stream of a well-formed vendor output has completed, the
\* onChunk payloads concatenated in order equal the content generateResponse
\* returns, and so does the content passed to onComplete.
C10_ContentEquivalence ==
    ( /\ WellFormed
      /\ StreamOver
      /\ \A i \in DOMAIN sEvents : sEvents[i].kind # "error"
      /\ \E i \in DOMAIN sEvents : sEvents[i].kind = "complete" )
    => /\ ConcatTexts(SelectSeq(sEvents, LAMBDA e : e.kind = "chunk"))
            = GenerateContent
       /\ \A i \in DOMAIN sEvents :
             sEvents[i].kind = "complete" => sEvents[i].text = GenerateContent

\* C19: the usage passed to onComplete by any adapter's streamResponse is
\* never null: it has the three canonical fields, each a natural number (0
\* when the vendor reported none).
C19_StreamUsageCanonical ==
    \A i \in DOMAIN sEvents :
        sEvents[i].kind = "complete" =>
            /\ ~sEvents[i].usage.isNull
            /\ sEvents[i].usage.value.prompt_tokens \in Nat
            /\ sEvents[i].usage.value.completion_tokens \in Nat
            /\ sEvents[i].usage.value.total_tokens \in Nat

\* a JavaScript value that is a number not below 0
IsCount(v) == v.t = "number" /\ v.n >= 0

\* C20: the usage a generateResponse returns has three fields that are
\* numbers not below 0, and when the vendor's response carries no total of
\* its own, total_tokens = prompt_tokens + completion_tokens.
C20_GenerateUsageTotals ==
    gen.pc = "returned" =>
        /\ IsCount(gen.usage.prompt_tokens)
        /\ IsCount(gen.usage.completion_tokens)
        /\ IsCount(gen.usage.total_tokens)
        /\ "total" \notin DOMAIN gen.vendor.fields =>
              gen.usage.total_tokens.n =
                  gen.usage.prompt_tokens.n + gen.usage.completion_tokens.n

(***************************************************************************)
(* Claims about the gateway.                                               *)
(***************************************************************************)
\* C11: in POST /api/chat, when generateResponse fails, neither turn is
\* persisted: no saveMessage is started and the logs and the metadata index
\* are exactly as they were when the request came in.
C11_FailedGenerationPersistsNothing ==
    (req.route = "chat" /\ req.generated = "failed")
    => /\ AllIdle
       /\ files = req.before.files
       /\ metadataFile = req.before.metadataFile

\* a generation failed on a conversation that earlier requests had written
C11_Witness ==
    /\ req.route = "chat"
    /\ req.pc = "done"
    /\ req.generated = "failed"
    /\ res.status = 500
    /\ req.before.files[req.convId].exists
    /\ HasRecord(req.convId)

\* C12: in POST /api/chat, when the generation succeeded and a saveMessage
\* after it failed, the response reports the failure and still carries the
\* generated content.
C12_ContentReturnedWhenSaveFails ==
    ( /\ req.route = "chat"
      /\ req.pc = "done"
      /\ req.generated = "ok"
      /\ req.persisted = "failed" )
    => /\ res.ended
       /\ res.body.error # ""
       /\ res.body.response = req.content

\* the callbacks of a kind that the adapter has invoked for this request
Invoked(kind) == {i \in DOMAIN sEvents : sEvents[i].kind = kind}

\* C13: in POST /api/chat/stream a saveMessage is started, and the store
\* changed, only after onComplete was invoked; and whenever onError was
\* invoked no saveMessage is started and the logs and the metadata index are
\* as they were when the request came in.
C13_PersistOnlyAfterComplete ==
    req.route = "stream" =>
        /\ (~AllIdle \/ StoreNow # req.before) => Invoked("complete") # {}
        /\ Invoked("error") # {} => (AllIdle /\ StoreNow = req.before)

\* a stream failed after a delta was forwarded, on a conversation that an
\* earlier request had persisted
C13_Witness ==
    /\ req.route = "stream"
    /\ req.pc = "done"
    /\ Invoked("chunk") # {}
    /\ Invoked("error") # {}
    /\ res.ended
    /\ req.before.files[req.convId].exists
    /\ HasRecord(req.convId)

TerminalFrames ==
    {i \in DOMAIN res.frames : res.frames[i].kind \in {"done", "error"}}

\* C14: once a POST /api/chat/stream request is over (the handler and every
\* callback have run to their end), exactly one terminal frame has been
\* written and the response is closed, also when a saveMessage failed
\* inside onComplete.
C14_OneTerminalFrameAndClosed ==
    (req.route = "stream" /\ req.pc \in {"done", "rejected"})
    => /\ Cardinality(TerminalFrames) = 1
       /\ res.ended

\* C15: when POST /api/compare has answered, the result list has one entry
\* per requested provider, entry i names providers[i], a branch that failed
\* is 'rejected' with its error message and no response, and a branch that
\* succeeded is 'fulfilled' with its own content and no error, whatever the
\* other branches did and in whatever order they settled.
C15_CompareIsolatesBranches ==
    cmp.pc = "done" =>
        /\ Len(cmp.results) = Len(cmp.providers)
        /\ \A i \in DOMAIN cmp.providers :
              LET entry == cmp.results[i]
                  provider == cmp.providers[i]
                  outcome == cmp.responses[i]
              IN /\ entry.provider = provider
                 /\ entry.status = outcome.status
                 /\ outcome.status = "rejected" =>
                        /\ entry.response.isNull
                        /\ ~entry.error.isNull
                        /\ entry.error.message =
                              IF provider \in Providers
                              THEN VendorError(provider) ELSE TypeErrorMessage
                 /\ outcome.status = "fulfilled" =>
                        /\ entry.error.isNull
                        /\ ~entry.response.isNull
                        /\ entry.response.content = VendorContent(provider)

\* two different providers were asked, the second settled first, and one
\* failed while the other succeeded
C15_Witness ==
    /\ cmp.pc = "done"
    /\ Len(cmp.providers) >= 2
    /\ cmp.providers[1] # cmp.providers[2]
    /\ cmp.order[1] = 2
    /\ cmp.results[1].status = "fulfilled"
    /\ cmp.results[2].status = "rejected"

(***************************************************************************)
(* Claims about the parameters sent to the vendor.                         *)
(***************************************************************************)
\* C21: when the caller of POST /api/chat or POST /api/chat/stream names no
\* model, the model sent to the vendor is the selected provider's own default
\* (the gateway's table or the adapter's parameter default); a model the
\* caller names is the model sent.
C21_ModelDefaultsPerProvider ==
    call.pc = "sent" =>
        LET provider == ToLowerCase(call.provider)
        IN IF call.body.model = Missing
           THEN call.sent.model \in
                    {getDefaultModel(provider), AdapterDefaultModel(provider)}
           ELSE call.sent.model = call.body.model

\* C22: the token limit sent to the vendor is the caller's maxTokens in both
\* modes: a streamed request sends what the same request sends unstreamed.
C22_MaxTokensSameInBothModes ==
    call.pc = "sent" =>
        call.sent.maxTokens =
            VendorRequest("chat", ToLowerCase(call.provider), call.model,
                          Destructured("chat", call.body).maxTokens).maxTokens

(***************************************************************************)
(* Claims about the reads of the store.                                    *)
(***************************************************************************)
\* the position of a record in the order by lastUpdated, newest first
Rank(id) ==
    1 + Cardinality({o \in DOMAIN metadataFile.data :
            metadataFile.data[o].lastUpdated > metadataFile.data[id].lastUpdated})

\* C23: getConversations(limit, offset) returns the metadata records newest
\* first and windowed: at most limit records, those at the positions offset to
\* offset + limit - 1 of the order, for the limit and offset the list endpoint
\* passes, values of the query string included.
C23_ListWindowed ==
    (qry.op = "list" /\ metadataFile.exists) =>
        LET limit == ToNumber(qry.args.limit)
            offset == ToNumber(qry.args.offset)
            result == qry.result
        IN /\ Len(result) <= limit
           /\ \A i \in 1..Len(result) :
                 /\ result[i].data = metadataFile.data[result[i].id]
                 /\ Rank(result[i].id) = offset + i
           /\ \A id \in DOMAIN metadataFile.data :
                 (Rank(id) > offset /\ Rank(id) <= offset + limit)
                 => \E i \in 1..Len(result) : result[i].id = id

\* C24: every entry searchConversations(query, limit) returns carries the
\* number of messages of its conversation whose content contains the query,
\* letter case ignored; the entries come most matches first, and there are at
\* most limit of them, for every limit >= 0.
C24_SearchCountsOrderedCapped ==
    qry.op = "search" =>
        LET result == qry.result
        IN /\ Len(result) <= qry.args.limit
           /\ \A i \in 1..Len(result) :
                 result[i].matches =
                     Len(MatchingMessages(getConversation(result[i].conversationId),
                                          qry.args.query))
           /\ \A i, j \in 1..Len(result) :
                 i < j => result[i].matches >= result[j].matches

\* C25: getConversationStats returns the number of records, the sum of their
\* message counts and the rounded average in every store state; with no
\* conversation, also before any metadata index exists, the average is there
\* and is zero.
C25_StatsTotalsAndAverage ==
    qry.op = "stats" =>
        LET metadata == IF metadataFile.exists THEN metadataFile.data
                        ELSE EmptyMetadata
            n == Cardinality(DOMAIN metadata)
            average == qry.result.averageMessagesPerConversation
        IN /\ qry.result.totalConversations = n
           /\ qry.result.totalMessages = SumMessageCounts(metadata, DOMAIN metadata)
           /\ average.exists
           /\ n = 0 => average.value = 0
           /\ n > 0 => /\ 2 * n * average.value <= 2 * qry.result.totalMessages + n
                       /\ 2 * n * average.value > 2 * qry.result.totalMessages - n

\* C26: getConversation on an id that has no log returns the empty sequence,
\* and the read makes neither a log nor a metadata record.
C26_GetUnknownIsEmpty ==
    [][\A id \in ConvIds :
          (qry.pc = "idle" /\ qry'.op = "get" /\ qry'.args = id
           /\ ~files[id].exists)
          => /\ qry'.result = <<>>
             /\ files' = files
             /\ metadataFile' = metadataFile]_vars

\* a read of an id that was never written, on a store that has another
\* conversation
C26_Witness ==
    /\ qry.op = "get"
    /\ qry.args \notin created
    /\ qry.result = <<>>
    /\ \E o \in ConvIds : files[o].exists

\* C27: when importConversation(data, id) returns, getConversation(id) is
\* data, and for data that is not empty the record of id has the role, the
\* timestamp and the preview of the content of the last element of data.
C27_ImportRoundTrip ==
    [][\A t \in Tasks, id \in ConvIds :
          (task[t].op = "import" /\ task[t].id = id
           /\ task'[t].pc = "idle" /\ task'[t].result = "ok")
          => LET data == task[t].conversation
             IN /\ getConversation(id)' = data
                /\ data # <<>> =>
                      /\ HasRecord(id)'
                      /\ LET last == data[Len(data)]
                             lastMessage == metadataFile'.data[id].lastMessage
                         IN /\ lastMessage.role = last.role
                            /\ lastMessage.timestamp = last.timestamp
                            /\ lastMessage.content =
                                   Substring0(last.content, PreviewLen)
                                   \o (IF Len(last.content) > PreviewLen
                                       THEN Ellipsis ELSE <<>>)]_vars

\* an import of two messages was read back whole, and the record has the
\* second one as its last message
C27_Witness ==
    /\ qry.op = "get"
    /\ qry.result = <<ImportEntry1, ImportEntry2>>
    /\ HasRecord(qry.args)
    /\ metadataFile.data[qry.args].lastMessage.role = "assistant"

\* C29: whatever saveMessage, importConversation and deleteConversation calls
\* were made, every conversation log holds at most 50 messages.
C29_EveryLogCapped ==
    \A id \in ConvIds : files[id].exists => Len(files[id].data) <= MaxHistory

(***************************************************************************)
(* Claims about what a chat request leaves in the store.                   *)
(***************************************************************************)
\* C30: when a POST /api/chat request has finished, with a reply or with a
\* store failure at either saveMessage, the log of its conversation holds
\* either what it held before followed by the request's user turn and its
\* assistant turn, in that order, or what it held before and neither turn.
C30_BothTurnsOrNeither ==
    (req.route = "chat" /\ req.pc = "done") =>
        LET old == req.before.files[req.convId].data
            new == files[req.convId].data
            n == Len(old)
        IN \/ new = old
           \/ /\ Len(new) = n + 2
              /\ SubSeq(new, 1, n) = old
              /\ new[n + 1].role = "user"
              /\ new[n + 1].content = req.message
              /\ new[n + 2].role = "assistant"
              /\ new[n + 2].content = req.content

\* C28: once the caller of POST /api/chat/stream has closed its connection,
\* onChunk writes no further content frame to the response.
C28_NoContentAfterClose ==
    (req.route = "stream" /\ sink.closed /\ sink.n = req.n) =>
        \A i \in (sink.frames + 1)..Len(res.frames) :
            res.frames[i].kind # "content"

(***************************************************************************)
(* The raw feed: lines that cannot be decoded                              *)
(***************************************************************************)

PayloadOf(line) == SubSeq(line, Len(DataPrefix) + 1, Len(line))

\* a 'data: ' line whose payload is neither the sentinel nor JSON
Undecodable(line) ==
    /\ StartsWithData(line)
    /\ PayloadOf(line) # DoneToken
    /\ ~JsonParses(PayloadOf(line))

\* the non-blank lines of the wire between two positions
LinesBetween(from, to) ==
    SelectSeq(Split(SubSeq(Wire(sScript), from + 1, to), "\n"),
              LAMBDA line : Trim(line) # <<>>)

\* C31: a 'data:' line whose payload cannot be decoded is dropped silently.
\* Each run of the 'data' handler leaves fullContent, usage and the callbacks
\* made exactly as a run over the same chunk without its undecodable lines
\* would: such a line causes no onChunk, no onComplete and no onError, and
\* the lines after it are processed as if it had not been there.
C31_UndecodableDropped ==
    [][sPos' > sPos =>
          LET lines == LinesBetween(sPos, sPos')
              kept == SelectSeq(lines, LAMBDA line : ~Undecodable(line))
              st == MistralLines([fullContent |-> sFull, usage |-> sUsage,
                                  emitted |-> <<>>, returned |-> FALSE], kept)
          IN /\ sFull' = st.fullContent
             /\ sUsage' = st.usage
             /\ sEvents' = sEvents \o st.emitted
             /\ \A i \in (Len(sEvents) + 1)..Len(sEvents') :
                   sEvents'[i].kind # "error"]_vars

\* the chunk handled last held an undecodable line and, after it, a line with
\* text, and the callbacks made end with that text's onChunk alone
C31_Witness ==
    /\ sPos > sPrev
    /\ LET lines == LinesBetween(sPrev, sPos)
       IN /\ Len(lines) = 2
          /\ Undecodable(lines[1])
          /\ StartsWithData(lines[2])
          /\ JsonParses(PayloadOf(lines[2]))
          /\ JsonParse(PayloadOf(lines[2])).content # <<>>
          /\ sEvents = <<ChunkEvent(JsonParse(PayloadOf(lines[2])).content)>>
          /\ sFull = JsonParse(PayloadOf(lines[2])).content

(***************************************************************************)
(* Search: the cap and the ranking                                         *)
(***************************************************************************)

\* the number of messages of a stored conversation that match the query
MatchCount(id, query) == Len(MatchingMessages(getConversation(id), query))

\* C32: searchConversations scans all conversations before applying the cap.
\* No conversation left out of the result has more matching messages than a
\* conversation included in it.
C32_SearchTopByMatches ==
    (qry.pc = "done" /\ qry.op = "search") =>
        \A id \in ConvIds :
            (/\ files[id].exists
             /\ \A i \in DOMAIN qry.result : qry.result[i].conversationId # id)
            => \A i \in DOMAIN qry.result :
                  MatchCount(id, qry.args.query) <= qry.result[i].matches

(***************************************************************************)
(* The index against the logs                                              *)
(***************************************************************************)

\* C35: between calls of saveMessage, importConversation and
\* deleteConversation, the messageCount of a conversation's record is never
\* less than the number of messages stored in its log.
C35_CountCoversLog ==
    AllIdle =>
        \A id \in ConvIds :
            (files[id].exists /\ HasRecord(id))
            => metadataFile.data[id].messageCount >= Len(files[id].data)

(***************************************************************************)
(* The generated title                                                     *)
(***************************************************************************)

\* the non-empty pieces of a text between its whitespace characters, in order
WhitespaceTokens(s) ==
    LET starts == {i \in 1..Len(s) :
                      s[i] \notin SpaceChars /\ (i = 1 \/ s[i - 1] \in SpaceChars)}
        start(k) == CHOOSE i \in starts : Cardinality({j \in starts : j < i}) = k - 1
        end(i) == CHOOSE j \in i..Len(s) :
                     /\ \A m \in i..j : s[m] \notin SpaceChars
                     /\ (j = Len(s) \/ s[j + 1] \in SpaceChars)
    IN [k \in 1..Cardinality(starts) |-> SubSeq(s, start(k), end(start(k)))]

\* C36: the generated title is the content with punctuation stripped, split
\* into whitespace-delimited tokens, the first five non-empty tokens joined by
\* single spaces; it is the fixed placeholder when no token remains.
C36_TitleFromTokens ==
    (qry.pc = "done" /\ qry.op = "title") =>
        LET stripped == SelectSeq(qry.args,
                                  LAMBDA ch : ch \in WordChars \cup SpaceChars)
            tokens == Slice0(WhitespaceTokens(stripped), TitleWords)
        IN qry.result = IF tokens = <<>> THEN NewConversation
                        ELSE Join(tokens, <<" ">>)

(***************************************************************************)
(* The gemini adapter's turns                                              *)
(***************************************************************************)

SystemPromptText == <<"B", "e", " ", "k", "i", "n", "d">>

\* C33: for the gemini adapter with a system prompt, the formatted sequence
\* begins with user(systemPrompt), model(acknowledgment), goes on with the
\* request's messages in order, and strictly alternates user/model starting
\* with user, for every history the chat handler loads from the store.
C33_GeminiAlternates ==
    (req.route = "chat" /\ req.pc = "generate" /\ req.provider = "gemini") =>
        LET formatted == GeminiFormatMessages(RequestMessages, SystemPromptText)
        IN /\ Len(formatted) = Len(RequestMessages) + 2
           /\ formatted[1] = GeminiTurn("user", SystemPromptText)
           /\ formatted[2] = GeminiTurn("model", GeminiAcknowledgment)
           /\ \A i \in 1..Len(RequestMessages) :
                 formatted[i + 2].text = RequestMessages[i].content
           /\ \A i \in 1..Len(formatted) :
                 formatted[i].role = IF i % 2 = 1 THEN "user" ELSE "model"

(***************************************************************************)
(* The cohere adapter's history and message                                *)
(***************************************************************************)

\* C34: for the cohere adapter and every non-empty message sequence, the
\* history holds exactly the messages before the last one, in order, an
\* assistant turn labelled CHATBOT and any other USER, and the message field
\* holds the content of the last message.
C34_CohereHistoryAndMessage ==
    (qry.pc = "done" /\ qry.op = "cohere") =>
        LET messages == qry.args
            history == qry.result.chatHistory
        IN /\ Len(history) = Len(messages) - 1
           /\ \A i \in 1..Len(history) :
                 /\ history[i].message = messages[i].content
                 /\ history[i].role = "CHATBOT" <=> messages[i].role = "assistant"
                 /\ history[i].role = "USER" <=> messages[i].role # "assistant"
           /\ qry.result.message = messages[Len(messages)].content

\* a call with a system turn, an assistant turn and a last user turn was made
C34_Witness ==
    /\ qry.pc = "done"
    /\ qry.op = "cohere"
    /\ Len(qry.args) = 3
    /\ qry.args[1].role = "system"
    /\ qry.args[2].role = "assistant"
    /\ qry.args[3] = [role |-> "user", content |-> ShortText]
    /\ qry.args[2].content # ShortText
    /\ Len(qry.result.chatHistory) = 2
    /\ qry.result.message = ShortText

====
